---------------------------- MODULE Spec2Model ----------------------------
(***************************************************************************)
(* CredAuth: the OTP-gated verification-request lifecycle of core/views.py *)
(* over the relational store of core/models.py and government/models.py.   *)
(* Every HTTP handler is one atomic action; the store is the state.        *)
(***************************************************************************)
EXTENDS Integers, Sequences, FiniteSets, TLC

VARIABLES
    now,          \* timezone.now(), in minutes
    owners,       \* OwnerProfile rows, by id_no
    requests,     \* VerificationRequest rows in insertion order; uuid = index
    audit,        \* AuditLog rows in insertion order
    certificates, \* Certificate rows
    otpAttempts,  \* uuids for which send_otp_to_owner was called
    last,         \* the last handler call: its inputs and its response
    groups,       \* auth: the names of the groups each user belongs to
    institutions, \* Institution rows, by pk
    businesses,   \* Business rows, by pk
    confirming,   \* per client session, the row an owner_confirm_otp call holds
    calls         \* per client session, the handler call under way, statement by statement

vars == <<now, owners, requests, audit, certificates, otpAttempts, last,
          groups, institutions, businesses, confirming, calls>>

(* What the verification-request handlers never touch *)
directory == <<groups, institutions, businesses>>

(* What a handler that runs as one step leaves alone: the calls under way *)
inflight == <<confirming, calls>>

----------------------------------------------------------------------------
(* Bounds of the model *)

MaxReq == 2      \* VerificationRequest rows
MaxViews == 1    \* "hr_viewed" audit rows
MaxTicks == 2    \* clock advances
TickStep == 10   \* minutes per clock advance
MaxReviews == 2  \* "hr_viewed" audit rows, where one request is viewed again
OneRequest == 1  \* VerificationRequest rows, where one request is viewed again
MaxGovAudit == 2 \* AuditLog rows written by the government handlers
GovTicks == 1    \* clock advances between government actions
MaxCertAudit == 2 \* AuditLog rows written by the certificate handlers

(* Program constants *)

OTP_MINUTES == 10
OTP_LOW == 100000
OTP_HIGH == 999999
ID_MAX_LENGTH == 50
OTP_MAX_LENGTH == 10
Null == -1

None == "None"

STATUS_PENDING == "pending"
STATUS_CONFIRMED == "confirmed"
STATUS_EXPIRED == "expired"
STATUS_CHOICES == {STATUS_PENDING, STATUS_CONFIRMED, STATUS_EXPIRED}

----------------------------------------------------------------------------
(* Actors, businesses and their staff relation *)

Anonymous == "anon"
Users == {"su", "hr1", "hr2"}
Actors == Users \cup {Anonymous}

is_superuser(u) == u = "su"
is_authenticated(u) == u \in Users

Businesses == {"b1", "b2"}

BusinessStaff(b) ==
    CASE b = "b1" -> {"hr1", "hr2"}
      [] b = "b2" -> {}
      [] OTHER -> {}

----------------------------------------------------------------------------
(* Form inputs.  An id_no is a sequence of characters, an otp a sequence   *)
(* of decimal digits; the empty sequence is the blank field.               *)

IdNos == {<<"A">>, <<"B">>}
IdInputs == IdNos \cup {<<>>}

RECURSIVE FormatInt(_)
FormatInt(n) == IF n < 10 THEN <<n>> ELSE Append(FormatInt(n \div 10), n % 10)

OtpDraws == {OTP_LOW, OTP_HIGH}
TooLongOtp == <<1, 2, 3, 4, 5, 6, 7, 8, 9, 0, 1>>
OtpInputs == {FormatInt(n) : n \in OtpDraws} \cup {<<>>, TooLongOtp}

Methods == {"GET", "POST"}

(* What the last handler call answered: the handler, its outcome, the row  *)
(* it acted on and what it rendered.                                       *)
NoRoles ==
    [is_government |-> FALSE, is_institution_staff |-> FALSE, is_business_hr |-> FALSE,
     is_owner |-> FALSE, is_admin |-> FALSE]

NoLast ==
    [op |-> "init", result |-> "", target |-> 0, can_view |-> FALSE,
     certs |-> {}, delivery |-> "", repeat |-> FALSE, roles |-> NoRoles, next |-> "",
     listed |-> {}]

(* @login_required answers an anonymous client itself, whatever the handler *)
LoginRedirect == [NoLast EXCEPT !.op = "login_required", !.result = "login_redirect"]

(* get_object_or_404 on a uuid no row has *)
Http404 == [NoLast EXCEPT !.op = "get_object_or_404", !.result = "404"]

----------------------------------------------------------------------------
(* Model methods of VerificationRequest *)

is_expired(r) == now > r.otp_expires_at

mark_confirmed_still_pending(r) == [r EXCEPT !.confirmed_at = now]

mark_confirmed(r) ==
    [r EXCEPT !.status = STATUS_CONFIRMED, !.confirmed_at = now]

AuditEntry(user, action, id_no, uuid, business) ==
    [user |-> user, action |-> action,
     details |-> [id_no |-> id_no, uuid |-> uuid, business |-> business],
     created_at |-> now]

(* Certificate.owner is the id_no of the linked OwnerProfile; the null link *)
(* is the empty id_no, which no OwnerProfile has                           *)
NoOwner == <<>>

InitialCertificates ==
    { [pk |-> 1, institution |-> "i1", owner_id_no |-> <<"A">>, owner |-> NoOwner],
      [pk |-> 2, institution |-> "i1", owner_id_no |-> <<"B">>, owner |-> NoOwner],
      [pk |-> 3, institution |-> "i2", owner_id_no |-> <<"A">>, owner |-> NoOwner] }

(* The groups _user_roles and is_government_user look for, and "admin" *)
GroupNames == {"government", "institution_staff", "business_hr", "owner", "admin"}

InitialGroups == [u \in Users |-> {}]

(* Institution rows and their staff relation *)
Institutions == {"i1", "i2"}

InstitutionStaff(i) ==
    CASE i = "i1" -> {"hr2"}
      [] i = "i2" -> {}
      [] OTHER -> {}

(* Primary keys in the order the store hands them out, and the unique     *)
(* Institution.code / Business.registration_number of the rows that exist  *)
InstitutionPks == <<"i1", "i2", "i3">>
BusinessPks == <<"b1", "b2", "b3">>

NewInstitution(code) == [code |-> code, verified |-> FALSE]

InitialInstitutions ==
    [i \in Institutions |-> NewInstitution(IF i = "i1" THEN "c1" ELSE "c2")]

NewBusiness_verified(user, registration_number) ==
    [registration_number |-> registration_number, registered_by |-> user,
     verified |-> TRUE, verified_by |-> None, verified_at |-> Null]

NewBusiness(user, registration_number) ==
    [registration_number |-> registration_number, registered_by |-> user,
     verified |-> FALSE, verified_by |-> None, verified_at |-> Null]

InitialBusinesses ==
    [b \in Businesses |-> NewBusiness(None, IF b = "b1" THEN "r1" ELSE "r2")]

(* Client sessions that may each have one owner_confirm_otp call under way *)
Sessions == {"s1", "s2"}

(* A session with no call under way *)
NoCall == [op |-> "none"]

Init ==
    /\ now = 0
    /\ owners = {}
    /\ requests = <<>>
    /\ audit = <<>>
    /\ certificates = InitialCertificates
    /\ otpAttempts = <<>>
    /\ last = NoLast
    /\ groups = InitialGroups
    /\ institutions = InitialInstitutions
    /\ businesses = InitialBusinesses
    /\ confirming = [s \in Sessions |-> {}]
    /\ calls = [s \in Sessions |-> NoCall]

----------------------------------------------------------------------------
(* The clock *)

Tick ==
    /\ now' = now + TickStep
    /\ last' = [NoLast EXCEPT !.op = "tick"]
    /\ UNCHANGED <<owners, requests, audit, certificates, otpAttempts>>
    /\ UNCHANGED <<directory, inflight>>

----------------------------------------------------------------------------
(* Owner flows *)

OwnerProfileForm_is_valid(id_no) ==
    /\ Len(id_no) > 0
    /\ Len(id_no) <= ID_MAX_LENGTH

owner_profile(method, id_no) ==
    /\ last' = [NoLast EXCEPT !.op = "owner_profile",
                              !.result = IF method = "POST" /\ OwnerProfileForm_is_valid(id_no)
                                         THEN "saved" ELSE "form"]
    /\ owners' = IF method = "POST" /\ OwnerProfileForm_is_valid(id_no)
                 THEN owners \cup {id_no} ELSE owners
    /\ UNCHANGED <<now, requests, audit, certificates, otpAttempts>>
    /\ UNCHANGED <<directory, inflight>>

OTPConfirmForm_is_valid(id_no, otp) ==
    /\ Len(id_no) > 0
    /\ Len(id_no) <= ID_MAX_LENGTH
    /\ Len(otp) > 0
    /\ Len(otp) <= OTP_MAX_LENGTH

ConfirmQueryset_ignoring_otp(id_no, otp) ==
    { i \in DOMAIN requests :
        /\ requests[i].id_no = id_no
        /\ requests[i].status = STATUS_PENDING }

(* qs: the pending rows whose id_no and otp both equal the inputs *)
ConfirmQueryset(id_no, otp) ==
    { i \in DOMAIN requests :
        /\ requests[i].id_no = id_no
        /\ requests[i].otp = otp
        /\ requests[i].status = STATUS_PENDING }

(* qs.order_by("-created_at").first(): a row of qs with the greatest       *)
(* created_at; the store decides between rows with equal created_at.       *)
ConfirmFirst_oldest(qs) ==
    { i \in qs : \A j \in qs : requests[i].created_at <= requests[j].created_at }

ConfirmFirst(qs) ==
    { i \in qs : \A j \in qs : requests[j].created_at <= requests[i].created_at }

owner_confirm_expire_unsaved(r) == r

owner_confirm_expire_stamping(r) ==
    [r EXCEPT !.status = STATUS_EXPIRED, !.confirmed_at = now]

owner_confirm_expire(r) == [r EXCEPT !.status = STATUS_EXPIRED]

owner_confirm_otp_sweeping(method, id_no, otp) ==
    LET qs == ConfirmQueryset(id_no, otp)
        call == [NoLast EXCEPT !.op = "owner_confirm_otp",
                               !.repeat = /\ last.op = "owner_confirm_otp"
                                          /\ last.result = "confirmed"
                                          /\ requests[last.target].id_no = id_no
                                          /\ requests[last.target].otp = otp]
        swept == [j \in DOMAIN requests |->
                    IF j \in qs /\ is_expired(requests[j])
                    THEN owner_confirm_expire(requests[j]) ELSE requests[j]]
    IN
    /\ UNCHANGED <<now, owners, certificates, otpAttempts>>
    /\ UNCHANGED <<directory, inflight>>
    /\ IF method # "POST" \/ ~OTPConfirmForm_is_valid(id_no, otp)
       THEN /\ last' = [call EXCEPT !.result = "form", !.repeat = FALSE]
            /\ UNCHANGED <<requests, audit>>
       ELSE IF qs = {}
       THEN /\ last' = [call EXCEPT !.result = "NotFound"]
            /\ UNCHANGED <<requests, audit>>
       ELSE \E i \in ConfirmFirst(qs) :
            IF is_expired(requests[i])
            THEN /\ requests' = swept
                 /\ last' = [call EXCEPT !.result = "Expired", !.target = i]
                 /\ UNCHANGED audit
            ELSE /\ requests' = [swept EXCEPT ![i] = mark_confirmed(@)]
                 /\ audit' = Append(audit, AuditEntry(None, "owner_confirmed", id_no, i, None))
                 /\ last' = [call EXCEPT !.result = "confirmed", !.target = i]

owner_confirm_otp(method, id_no, otp) ==
    LET qs == ConfirmQueryset(id_no, otp)
        call == [NoLast EXCEPT !.op = "owner_confirm_otp",
                               !.repeat = /\ last.op = "owner_confirm_otp"
                                          /\ last.result = "confirmed"
                                          /\ requests[last.target].id_no = id_no
                                          /\ requests[last.target].otp = otp]
    IN
    /\ UNCHANGED <<now, owners, certificates, otpAttempts>>
    /\ UNCHANGED <<directory, inflight>>
    /\ IF method # "POST" \/ ~OTPConfirmForm_is_valid(id_no, otp)
       THEN /\ last' = [call EXCEPT !.result = "form", !.repeat = FALSE]
            /\ UNCHANGED <<requests, audit>>
       ELSE IF qs = {}
       THEN /\ last' = [call EXCEPT !.result = "NotFound"]
            /\ UNCHANGED <<requests, audit>>
       ELSE \E i \in ConfirmFirst(qs) :
            IF is_expired(requests[i])
            THEN /\ requests' = [requests EXCEPT ![i] = owner_confirm_expire(@)]
                 /\ last' = [call EXCEPT !.result = "Expired", !.target = i]
                 /\ UNCHANGED audit
            ELSE /\ requests' = [requests EXCEPT ![i] = mark_confirmed(@)]
                 /\ audit' = Append(audit, AuditEntry(None, "owner_confirmed", id_no, i, None))
                 /\ last' = [call EXCEPT !.result = "confirmed", !.target = i]

----------------------------------------------------------------------------
(* HR flows *)

(* HRVerifyForm.__init__: the business choices are those the user staffs *)
HRVerifyForm_queryset(user) == { b \in Businesses : user \in BusinessStaff(b) }

HRVerifyForm_is_valid(user, id_no, business) ==
    /\ Len(id_no) > 0
    /\ Len(id_no) <= ID_MAX_LENGTH
    /\ business = None \/ business \in HRVerifyForm_queryset(user)

hr_verify_authorized(user, business) ==
    ~(business # None /\ ~(is_superuser(user) \/ user \in BusinessStaff(business)))

hr_verify_result_no_owner_lookup(actor, method, id_no, business) ==
    IF method # "POST" THEN "form"
    ELSE IF ~HRVerifyForm_is_valid(actor, id_no, business) THEN "form_invalid"
    ELSE IF ~hr_verify_authorized(actor, business) THEN "NotAuthorized"
    ELSE "created"

hr_verify_result(actor, method, id_no, business) ==
    IF method # "POST" THEN "form"
    ELSE IF ~HRVerifyForm_is_valid(actor, id_no, business) THEN "form_invalid"
    ELSE IF ~hr_verify_authorized(actor, business) THEN "NotAuthorized"
    ELSE IF id_no \notin owners THEN "NoOwner"
    ELSE "created"

NewRequest_deadline_hours(uuid, user, business, id_no, n) ==
    [uuid |-> uuid, hr_user |-> user, hr_business |-> business, id_no |-> id_no,
     created_at |-> now, otp |-> FormatInt(n),
     otp_expires_at |-> now + OTP_MINUTES * 60, status |-> STATUS_PENDING,
     confirmed_at |-> Null, viewed_at |-> Null]

NewRequest(uuid, user, business, id_no, n) ==
    [uuid |-> uuid, hr_user |-> user, hr_business |-> business, id_no |-> id_no,
     created_at |-> now, otp |-> FormatInt(n),
     otp_expires_at |-> now + OTP_MINUTES, status |-> STATUS_PENDING,
     confirmed_at |-> Null, viewed_at |-> Null]

(* send_otp_to_owner: mail when the owner has an email (send_mail may      *)
(* raise), and always a console line                                       *)
DeliveryOutcomes == {"delivered", "raised"}

hr_verify(actor, method, id_no, business) ==
    LET res == hr_verify_result(actor, method, id_no, business)
        call == [NoLast EXCEPT !.op = "hr_verify", !.result = res]
        uuid == Len(requests) + 1
    IN
    /\ UNCHANGED <<now, owners, certificates>>
    /\ UNCHANGED <<directory, inflight>>
    /\ IF ~is_authenticated(actor)
       THEN /\ last' = LoginRedirect
            /\ UNCHANGED <<requests, audit, otpAttempts>>
       ELSE IF res # "created"
       THEN /\ last' = call
            /\ UNCHANGED <<requests, audit, otpAttempts>>
       ELSE \E n \in OtpDraws, d \in DeliveryOutcomes :
                /\ requests' = Append(requests, NewRequest(uuid, actor, business, id_no, n))
                /\ otpAttempts' = Append(otpAttempts, uuid)
                /\ audit' = Append(audit, AuditEntry(actor, "requested_verification", id_no, 0, business))
                /\ last' = [call EXCEPT !.target = uuid, !.delivery = d]

hr_request_list_queryset_own(user) ==
    IF is_superuser(user)
    THEN DOMAIN requests
    ELSE { i \in DOMAIN requests : requests[i].hr_user = user }

hr_request_list_queryset(user) ==
    IF is_superuser(user)
    THEN DOMAIN requests
    ELSE { i \in DOMAIN requests : requests[i].hr_user = user }
         \cup { i \in DOMAIN requests :
                  requests[i].hr_business \in { b \in Businesses : user \in BusinessStaff(b) } }

hr_request_list_expire_stamping(v) ==
    IF v.status = STATUS_PENDING /\ is_expired(v)
    THEN [v EXCEPT !.status = STATUS_EXPIRED, !.otp_expires_at = now]
    ELSE v

hr_request_list_expire(v) ==
    IF v.status = STATUS_PENDING /\ is_expired(v)
    THEN [v EXCEPT !.status = STATUS_EXPIRED]
    ELSE v

hr_request_list(actor) ==
    LET qs == hr_request_list_queryset(actor)
        call == [NoLast EXCEPT !.op = "hr_request_list"]
    IN
    /\ UNCHANGED <<now, owners, audit, certificates, otpAttempts>>
    /\ UNCHANGED <<directory, inflight>>
    /\ IF ~is_authenticated(actor)
       THEN /\ last' = LoginRedirect
            /\ UNCHANGED requests
       ELSE /\ requests' = [i \in DOMAIN requests |->
                              IF i \in qs THEN hr_request_list_expire(requests[i])
                              ELSE requests[i]]
            /\ last' = [call EXCEPT !.result = "ok", !.listed = qs]

hr_request_status_expire_any(vr) ==
    IF is_expired(vr) THEN [vr EXCEPT !.status = STATUS_EXPIRED] ELSE vr

hr_request_status_expire_unsaved(vr) == vr

hr_request_status_expire(vr) ==
    IF vr.status = STATUS_PENDING /\ is_expired(vr)
    THEN [vr EXCEPT !.status = STATUS_EXPIRED]
    ELSE vr

hr_request_status(actor, uuid) ==
    LET call == [NoLast EXCEPT !.op = "hr_request_status"]
    IN
    /\ UNCHANGED <<now, owners, audit, certificates, otpAttempts>>
    /\ UNCHANGED <<directory, inflight>>
    /\ IF ~is_authenticated(actor)
       THEN /\ last' = LoginRedirect
            /\ UNCHANGED requests
       ELSE IF uuid \notin DOMAIN requests
       THEN /\ last' = Http404
            /\ UNCHANGED requests
       ELSE /\ requests' = [requests EXCEPT ![uuid] = hr_request_status_expire(@)]
            /\ last' = [call EXCEPT !.result = "ok", !.target = uuid]

hr_view_allowed_any_staff(user, vr) ==
    \/ is_superuser(user)
    \/ vr.hr_user # None /\ vr.hr_user = user
    \/ \E b \in Businesses : user \in BusinessStaff(b)

hr_view_allowed(user, vr) ==
    \/ is_superuser(user)
    \/ vr.hr_user # None /\ vr.hr_user = user
    \/ vr.hr_business # None /\ user \in BusinessStaff(vr.hr_business)

hr_view_can_view_once_confirmed(vr) == vr.status = STATUS_CONFIRMED

hr_view_can_view(vr) ==
    vr.status = STATUS_CONFIRMED /\ ~is_expired(vr)

CertificatesFor_linked(id_no) == { c \in certificates : c.owner = id_no }

CertificatesFor(id_no) == { c \in certificates : c.owner_id_no = id_no }

hr_view_request(actor, uuid) ==
    LET call == [NoLast EXCEPT !.op = "hr_view_request"]
    IN
    /\ UNCHANGED <<now, owners, certificates, otpAttempts>>
    /\ UNCHANGED <<directory, inflight>>
    /\ IF ~is_authenticated(actor)
       THEN /\ last' = LoginRedirect
            /\ UNCHANGED <<requests, audit>>
       ELSE IF uuid \notin DOMAIN requests
       THEN /\ last' = Http404
            /\ UNCHANGED <<requests, audit>>
       ELSE IF ~hr_view_allowed(actor, requests[uuid])
       THEN /\ last' = [call EXCEPT !.result = "Forbidden", !.target = uuid]
            /\ UNCHANGED <<requests, audit>>
       ELSE IF ~hr_view_can_view(requests[uuid])
       THEN /\ last' = [call EXCEPT !.result = "ok", !.target = uuid]
            /\ UNCHANGED <<requests, audit>>
       ELSE /\ requests' = [requests EXCEPT ![uuid].viewed_at = now]
            /\ audit' = Append(audit, AuditEntry(actor, "hr_viewed", requests[uuid].id_no, uuid, None))
            /\ last' = [call EXCEPT !.result = "ok", !.target = uuid, !.can_view = TRUE,
                                    !.certs = { c.pk : c \in CertificatesFor(requests[uuid].id_no) }]

----------------------------------------------------------------------------
(* The calls a client makes.  A GET carries no form; the login_required    *)
(* handlers answer an anonymous client before reading anything.            *)
Uuids == 1 .. MaxReq

(* Only the owner of id_no "A" ever registers *)
OwnerProfileCalls ==
    {<<"GET", <<>>>>, <<"POST", <<>>>>, <<"POST", <<"A">>>>}

ConfirmCalls ==
    {<<"GET", <<>>, <<>>>>}
    \cup {<<"POST", i, o>> : i \in IdNos, o \in OtpInputs}
    \cup {<<"POST", <<>>, FormatInt(OTP_LOW)>>}

(* "hr1" files requests, with or without a business; the superuser "su"   *)
(* files them for a business; "hr2", hr1's colleague at "b1", only reads.  *)
HrVerifyCalls ==
    {<<a, "GET", <<>>, None>> : a \in Actors}
    \cup {<<Anonymous, "POST", <<"A">>, None>>, <<"hr1", "POST", <<>>, None>>}
    \cup {<<"hr1", "POST", i, b>> : i \in IdNos, b \in Businesses \cup {None}}
    \cup {<<"su", "POST", i, b>> : i \in IdNos, b \in Businesses}

NumViews(log) == Cardinality({ k \in DOMAIN log : log[k].action = "hr_viewed" })

Next ==
    \/ Tick /\ now' <= MaxTicks * TickStep
    \/ \E c \in OwnerProfileCalls : owner_profile(c[1], c[2])
    \/ \E c \in ConfirmCalls : owner_confirm_otp(c[1], c[2], c[3])
    \/ \E c \in HrVerifyCalls : hr_verify(c[1], c[2], c[3], c[4]) /\ Len(requests') <= MaxReq
    \/ \E a \in Actors : hr_request_list(a)
    \/ \E a \in Actors, u \in Uuids : hr_request_status(a, u)
    \/ \E a \in Actors, u \in Uuids : hr_view_request(a, u) /\ NumViews(audit') <= MaxViews

Spec == Init /\ [][Next]_vars

(* One request, created, confirmed and viewed more than once *)
NextViews ==
    \/ Tick /\ now' <= MaxTicks * TickStep
    \/ \E c \in OwnerProfileCalls : owner_profile(c[1], c[2])
    \/ \E c \in ConfirmCalls : owner_confirm_otp(c[1], c[2], c[3])
    \/ \E c \in HrVerifyCalls : hr_verify(c[1], c[2], c[3], c[4]) /\ Len(requests') <= OneRequest
    \/ \E a \in Actors, u \in Uuids : hr_view_request(a, u) /\ NumViews(audit') <= MaxReviews

SpecViews == Init /\ [][NextViews]_vars


----------------------------------------------------------------------------
(* Dashboard: the role flags of the requesting user *)

is_anonymous(u) == u = Anonymous

user_roles_admin_group(user) ==
    IF is_anonymous(user)
    THEN [NoRoles EXCEPT !.is_admin = is_superuser(user)]
    ELSE [is_government |-> is_superuser(user) \/ "government" \in groups[user],
          is_institution_staff |-> is_superuser(user) \/ "institution_staff" \in groups[user],
          is_business_hr |-> is_superuser(user) \/ "business_hr" \in groups[user],
          is_owner |-> is_superuser(user) \/ "owner" \in groups[user],
          is_admin |-> is_superuser(user) \/ "admin" \in groups[user]]

user_roles(user) ==
    IF is_anonymous(user)
    THEN [NoRoles EXCEPT !.is_admin = is_superuser(user)]
    ELSE [is_government |-> is_superuser(user) \/ "government" \in groups[user],
          is_institution_staff |-> is_superuser(user) \/ "institution_staff" \in groups[user],
          is_business_hr |-> is_superuser(user) \/ "business_hr" \in groups[user],
          is_owner |-> is_superuser(user) \/ "owner" \in groups[user],
          is_admin |-> is_superuser(user)]

home(actor) ==
    /\ last' = [NoLast EXCEPT !.op = "home", !.roles = user_roles(actor)]
    /\ UNCHANGED <<now, owners, requests, audit, certificates, otpAttempts>>
    /\ UNCHANGED <<directory, inflight>>

(* The group memberships the dashboard is asked about: "hr1" in any set of *)
(* the groups, the superuser in none or one                                *)
RoleGroupings ==
    { [u \in Users |-> IF u = "hr1" THEN g ELSE IF u = "su" THEN h ELSE {}] :
        g \in SUBSET GroupNames, h \in {{}, {"owner"}} }

InitRoles ==
    /\ groups \in RoleGroupings
    /\ now = 0
    /\ owners = {}
    /\ requests = <<>>
    /\ audit = <<>>
    /\ certificates = InitialCertificates
    /\ otpAttempts = <<>>
    /\ last = NoLast
    /\ institutions = InitialInstitutions
    /\ businesses = InitialBusinesses
    /\ confirming = [s \in Sessions |-> {}]
    /\ calls = [s \in Sessions |-> NoCall]

NextRoles == \E a \in Actors : home(a)

SpecRoles == InitRoles /\ [][NextRoles]_vars

----------------------------------------------------------------------------
(* Institution certificate management *)

user_is_institution_staff_anywhere(user, institution) ==
    IF is_superuser(user) THEN TRUE
    ELSE \E i \in Institutions : user \in InstitutionStaff(i)

user_is_institution_staff(user, institution) ==
    IF is_superuser(user) THEN TRUE ELSE user \in InstitutionStaff(institution)

(* CertificateForm: institution is a required choice among the Institution *)
(* rows, owner_id_no a required field of at most 50 characters             *)
CertificateForm_is_valid(institution, owner_id_no) ==
    /\ institution \in DOMAIN institutions
    /\ Len(owner_id_no) > 0
    /\ Len(owner_id_no) <= ID_MAX_LENGTH

CertificateOwner_unchecked(owner_id_no) == owner_id_no

(* OwnerProfile.objects.get(id_no=cert.owner_id_no), or None *)
CertificateOwner(owner_id_no) ==
    IF owner_id_no \in owners THEN owner_id_no ELSE NoOwner

(* The pk of the next Certificate row: pks are never handed out twice *)
NextCertificatePk ==
    Cardinality(InitialCertificates)
    + Cardinality({ k \in DOMAIN audit : audit[k].action = "certificate_added" }) + 1

CertificatesOf(institution) == { c \in certificates : c.institution = institution }

Forbidden(op) == [NoLast EXCEPT !.op = op, !.result = "Forbidden"]

institution_cert_list(actor, inst_id) ==
    /\ UNCHANGED <<now, owners, requests, audit, certificates, otpAttempts>>
    /\ UNCHANGED <<directory, inflight>>
    /\ last' = IF ~is_authenticated(actor) THEN LoginRedirect
               ELSE IF inst_id \notin DOMAIN institutions THEN Http404
               ELSE IF ~user_is_institution_staff(actor, inst_id)
               THEN Forbidden("institution_cert_list")
               ELSE [NoLast EXCEPT !.op = "institution_cert_list", !.result = "ok",
                                   !.certs = { c.pk : c \in CertificatesOf(inst_id) }]

institution_cert_create(actor, inst_id, method, institution, owner_id_no) ==
    LET call == [NoLast EXCEPT !.op = "institution_cert_create"]
        cert == [pk |-> NextCertificatePk, institution |-> inst_id,
                 owner_id_no |-> owner_id_no, owner |-> CertificateOwner(owner_id_no)]
    IN
    /\ UNCHANGED <<now, owners, requests, otpAttempts>>
    /\ UNCHANGED <<directory, inflight>>
    /\ IF ~is_authenticated(actor)
       THEN last' = LoginRedirect /\ UNCHANGED <<certificates, audit>>
       ELSE IF inst_id \notin DOMAIN institutions
       THEN last' = Http404 /\ UNCHANGED <<certificates, audit>>
       ELSE IF ~user_is_institution_staff(actor, inst_id)
       THEN last' = Forbidden("institution_cert_create") /\ UNCHANGED <<certificates, audit>>
       ELSE IF method # "POST" \/ ~CertificateForm_is_valid(institution, owner_id_no)
       THEN last' = [call EXCEPT !.result = "form"] /\ UNCHANGED <<certificates, audit>>
       ELSE /\ certificates' = certificates \cup {cert}
            /\ audit' = Append(audit, AuditEntry(actor, "certificate_added", <<>>, cert.pk, inst_id))
            /\ last' = [call EXCEPT !.result = "redirect", !.target = cert.pk]

institution_cert_edit(actor, inst_id, pk, method, institution, owner_id_no) ==
    LET call == [NoLast EXCEPT !.op = "institution_cert_edit"]
        found == { c \in CertificatesOf(inst_id) : c.pk = pk }
    IN
    /\ UNCHANGED <<now, owners, requests, otpAttempts>>
    /\ UNCHANGED <<directory, inflight>>
    /\ IF ~is_authenticated(actor)
       THEN last' = LoginRedirect /\ UNCHANGED <<certificates, audit>>
       ELSE IF inst_id \notin DOMAIN institutions
       THEN last' = Http404 /\ UNCHANGED <<certificates, audit>>
       ELSE IF ~user_is_institution_staff(actor, inst_id)
       THEN last' = Forbidden("institution_cert_edit") /\ UNCHANGED <<certificates, audit>>
       ELSE IF found = {}
       THEN last' = Http404 /\ UNCHANGED <<certificates, audit>>
       ELSE IF method # "POST" \/ ~CertificateForm_is_valid(institution, owner_id_no)
       THEN last' = [call EXCEPT !.result = "form"] /\ UNCHANGED <<certificates, audit>>
       ELSE /\ certificates' =
                 (certificates \ found)
                 \cup {[pk |-> pk, institution |-> institution, owner_id_no |-> owner_id_no,
                        owner |-> CertificateOwner(owner_id_no)]}
            /\ audit' = Append(audit, AuditEntry(actor, "certificate_edited", <<>>, pk, inst_id))
            /\ last' = [call EXCEPT !.result = "redirect", !.target = pk]

institution_cert_delete_purging(actor, inst_id, pk, method) ==
    LET call == [NoLast EXCEPT !.op = "institution_cert_delete"]
        found == { c \in CertificatesOf(inst_id) : c.pk = pk }
        kept == SelectSeq(audit, LAMBDA e : ~(/\ e.details.uuid = pk
                                              /\ e.action \in {"certificate_added",
                                                                "certificate_edited"}))
    IN
    /\ UNCHANGED <<now, owners, requests, otpAttempts>>
    /\ UNCHANGED <<directory, inflight>>
    /\ IF ~is_authenticated(actor)
       THEN last' = LoginRedirect /\ UNCHANGED <<certificates, audit>>
       ELSE IF inst_id \notin DOMAIN institutions
       THEN last' = Http404 /\ UNCHANGED <<certificates, audit>>
       ELSE IF ~user_is_institution_staff(actor, inst_id)
       THEN last' = Forbidden("institution_cert_delete") /\ UNCHANGED <<certificates, audit>>
       ELSE IF found = {}
       THEN last' = Http404 /\ UNCHANGED <<certificates, audit>>
       ELSE IF method # "POST"
       THEN last' = [call EXCEPT !.result = "form"] /\ UNCHANGED <<certificates, audit>>
       ELSE /\ certificates' = certificates \ found
            /\ audit' = Append(kept, AuditEntry(actor, "certificate_deleted", <<>>, pk, inst_id))
            /\ last' = [call EXCEPT !.result = "redirect", !.target = pk]

institution_cert_delete(actor, inst_id, pk, method) ==
    LET call == [NoLast EXCEPT !.op = "institution_cert_delete"]
        found == { c \in CertificatesOf(inst_id) : c.pk = pk }
    IN
    /\ UNCHANGED <<now, owners, requests, otpAttempts>>
    /\ UNCHANGED <<directory, inflight>>
    /\ IF ~is_authenticated(actor)
       THEN last' = LoginRedirect /\ UNCHANGED <<certificates, audit>>
       ELSE IF inst_id \notin DOMAIN institutions
       THEN last' = Http404 /\ UNCHANGED <<certificates, audit>>
       ELSE IF ~user_is_institution_staff(actor, inst_id)
       THEN last' = Forbidden("institution_cert_delete") /\ UNCHANGED <<certificates, audit>>
       ELSE IF found = {}
       THEN last' = Http404 /\ UNCHANGED <<certificates, audit>>
       ELSE IF method # "POST"
       THEN last' = [call EXCEPT !.result = "form"] /\ UNCHANGED <<certificates, audit>>
       ELSE /\ certificates' = certificates \ found
            /\ audit' = Append(audit, AuditEntry(actor, "certificate_deleted", <<>>, pk, inst_id))
            /\ last' = [call EXCEPT !.result = "redirect", !.target = pk]

(* Owners "A" and "B" may register while certificates are managed *)
CertOwnerProfileCalls == {<<"POST", i>> : i \in IdNos}

(* Institution "i9" does not exist; "hr2" staffs "i1" only *)
CertInstitutionIds == {"i1", "i2", "i9"}
CertPks == {1, 3, 4}

(* Every actor tries each operation on "i1"; the staff user "hr2" and the  *)
(* superuser make the other calls                                          *)
CertListCalls ==
    {<<a, "i1">> : a \in Actors} \cup {<<"hr2", i>> : i \in CertInstitutionIds}

CertCreateCalls ==
    {<<a, "i1", "POST", "i1", <<"A">>>> : a \in Actors}
    \cup {<<"hr2", i, "POST", "i1", <<"B">>>> : i \in CertInstitutionIds}
    \cup {<<"hr2", "i1", "GET", None, <<>>>>, <<"hr2", "i1", "POST", None, <<"A">>>>,
          <<"hr2", "i1", "POST", "i1", <<>>>>, <<"su", "i2", "POST", "i2", <<"B">>>>}

CertEditCalls ==
    {<<a, "i1", 1, "POST", "i1", <<"A">>>> : a \in Actors}
    \cup {<<"hr2", i, 1, "POST", "i1", <<"B">>>> : i \in CertInstitutionIds}
    \cup {<<"hr2", "i1", pk, "POST", "i1", <<"B">>>> : pk \in CertPks}
    \cup {<<"hr2", "i1", 1, "GET", None, <<>>>>, <<"hr2", "i1", 1, "POST", "i2", <<"A">>>>,
          <<"hr2", "i1", 1, "POST", "i1", <<>>>>, <<"su", "i2", 3, "POST", "i2", <<"A">>>>}

CertDeleteCalls ==
    {<<a, "i1", 1, "POST">> : a \in Actors}
    \cup {<<"hr2", i, 1, "POST">> : i \in CertInstitutionIds}
    \cup {<<"hr2", "i1", pk, "POST">> : pk \in CertPks}
    \cup {<<"hr2", "i1", 1, "GET">>}
    \cup {<<"su", "i2", 3, "POST">>}

NextCert ==
    \/ \E c \in CertOwnerProfileCalls : owner_profile(c[1], c[2])
    \/ \E c \in CertListCalls : institution_cert_list(c[1], c[2])
    \/ \E c \in CertCreateCalls :
          institution_cert_create(c[1], c[2], c[3], c[4], c[5]) /\ Len(audit') <= MaxCertAudit
    \/ \E c \in CertEditCalls :
          institution_cert_edit(c[1], c[2], c[3], c[4], c[5], c[6]) /\ Len(audit') <= MaxCertAudit
    \/ \E c \in CertDeleteCalls :
          institution_cert_delete(c[1], c[2], c[3], c[4]) /\ Len(audit') <= MaxCertAudit

SpecCert == Init /\ [][NextCert]_vars

----------------------------------------------------------------------------
(* Government flows *)

is_government_user_any_group(user) ==
    IF is_superuser(user) THEN TRUE ELSE groups[user] # {}

is_government_user(user) ==
    IF is_superuser(user) THEN TRUE ELSE "government" \in groups[user]

(* user_passes_test sends a user who fails the test to the login page,    *)
(* with the page asked for as ?next=                                       *)
GovRedirect(path) ==
    [NoLast EXCEPT !.op = "gov_required", !.result = "login_redirect", !.next = path]

(* @login_required @gov_required: TRUE when the handler body runs *)
gov_admitted(actor) == is_authenticated(actor) /\ is_government_user(actor)

gov_refusal(actor, path) ==
    IF is_authenticated(actor) THEN GovRedirect(path) ELSE LoginRedirect

GovAuditEntry(user, action, pk) == AuditEntry(user, action, <<>>, 0, pk)

InstitutionCreateForm_is_valid(code) ==
    /\ code # ""
    /\ \A i \in DOMAIN institutions : institutions[i].code # code

institution_create(actor, method, code) ==
    LET call == [NoLast EXCEPT !.op = "institution_create"]
        pk == InstitutionPks[Cardinality(DOMAIN institutions) + 1]
    IN
    /\ UNCHANGED <<now, owners, requests, certificates, otpAttempts, groups, businesses, inflight>>
    /\ IF ~gov_admitted(actor)
       THEN /\ last' = gov_refusal(actor, "institution_create")
            /\ UNCHANGED <<institutions, audit>>
       ELSE IF method # "POST" \/ ~InstitutionCreateForm_is_valid(code)
       THEN /\ last' = [call EXCEPT !.result = "form"]
            /\ UNCHANGED <<institutions, audit>>
       ELSE /\ institutions' = [i \in DOMAIN institutions \cup {pk} |->
                                  IF i = pk THEN NewInstitution(code) ELSE institutions[i]]
            /\ audit' = Append(audit, GovAuditEntry(actor, "institution_added", pk))
            /\ last' = [call EXCEPT !.result = "redirect"]

institution_verify(actor, pk, method, action) ==
    LET call == [NoLast EXCEPT !.op = "institution_verify"]
    IN
    /\ UNCHANGED <<now, owners, requests, certificates, otpAttempts, groups, businesses, inflight>>
    /\ IF ~gov_admitted(actor)
       THEN /\ last' = gov_refusal(actor, "institution_verify")
            /\ UNCHANGED <<institutions, audit>>
       ELSE IF pk \notin DOMAIN institutions
       THEN /\ last' = Http404
            /\ UNCHANGED <<institutions, audit>>
       ELSE IF method # "POST"
       THEN /\ last' = [call EXCEPT !.result = "form"]
            /\ UNCHANGED <<institutions, audit>>
       ELSE IF action = "verify"
       THEN /\ institutions' = [institutions EXCEPT ![pk].verified = TRUE]
            /\ audit' = Append(audit, GovAuditEntry(actor, "institution_verified", pk))
            /\ last' = [call EXCEPT !.result = "redirect"]
       ELSE IF action = "unverify"
       THEN /\ institutions' = [institutions EXCEPT ![pk].verified = FALSE]
            /\ audit' = Append(audit, GovAuditEntry(actor, "institution_unverified", pk))
            /\ last' = [call EXCEPT !.result = "redirect"]
       ELSE /\ last' = [call EXCEPT !.result = "redirect"]
            /\ UNCHANGED <<institutions, audit>>

BusinessForm_is_valid(registration_number) ==
    /\ registration_number # ""
    /\ \A b \in DOMAIN businesses : businesses[b].registration_number # registration_number

business_create(actor, method, registration_number) ==
    LET call == [NoLast EXCEPT !.op = "business_create"]
        pk == BusinessPks[Cardinality(DOMAIN businesses) + 1]
    IN
    /\ UNCHANGED <<now, owners, requests, certificates, otpAttempts, groups, institutions, inflight>>
    /\ IF ~gov_admitted(actor)
       THEN /\ last' = gov_refusal(actor, "business_create")
            /\ UNCHANGED <<businesses, audit>>
       ELSE IF method # "POST" \/ ~BusinessForm_is_valid(registration_number)
       THEN /\ last' = [call EXCEPT !.result = "form"]
            /\ UNCHANGED <<businesses, audit>>
       ELSE /\ businesses' = [b \in DOMAIN businesses \cup {pk} |->
                                IF b = pk THEN NewBusiness(actor, registration_number)
                                ELSE businesses[b]]
            /\ audit' = Append(audit, GovAuditEntry(actor, "business_registered", pk))
            /\ last' = [call EXCEPT !.result = "redirect"]

business_verified(b, user) ==
    [b EXCEPT !.verified = TRUE, !.verified_by = user, !.verified_at = now]

business_unverified(b) ==
    [b EXCEPT !.verified = FALSE, !.verified_by = None, !.verified_at = Null]

business_verify(actor, pk, method, action) ==
    LET call == [NoLast EXCEPT !.op = "business_verify"]
    IN
    /\ UNCHANGED <<now, owners, requests, certificates, otpAttempts, groups, institutions, inflight>>
    /\ IF ~gov_admitted(actor)
       THEN /\ last' = gov_refusal(actor, "business_verify")
            /\ UNCHANGED <<businesses, audit>>
       ELSE IF pk \notin DOMAIN businesses
       THEN /\ last' = Http404
            /\ UNCHANGED <<businesses, audit>>
       ELSE IF method # "POST"
       THEN /\ last' = [call EXCEPT !.result = "form"]
            /\ UNCHANGED <<businesses, audit>>
       ELSE IF action = "verify"
       THEN /\ businesses' = [businesses EXCEPT ![pk] = business_verified(@, actor)]
            /\ audit' = Append(audit, GovAuditEntry(actor, "business_verified", pk))
            /\ last' = [call EXCEPT !.result = "redirect"]
       ELSE IF action = "unverify"
       THEN /\ businesses' = [businesses EXCEPT ![pk] = business_unverified(@)]
            /\ audit' = Append(audit, GovAuditEntry(actor, "business_unverified", pk))
            /\ last' = [call EXCEPT !.result = "redirect"]
       ELSE /\ last' = [call EXCEPT !.result = "redirect"]
            /\ UNCHANGED <<businesses, audit>>

(* "hr2" is in the group "government"; "hr1" is in other groups only *)
GovGroups ==
    [u \in Users |-> IF u = "hr2" THEN {"government"}
                     ELSE IF u = "hr1" THEN {"business_hr", "admin"} ELSE {}]

InitGov ==
    /\ groups = GovGroups
    /\ now = 0
    /\ owners = {}
    /\ requests = <<>>
    /\ audit = <<>>
    /\ certificates = InitialCertificates
    /\ otpAttempts = <<>>
    /\ last = NoLast
    /\ institutions = InitialInstitutions
    /\ businesses = InitialBusinesses
    /\ confirming = [s \in Sessions |-> {}]
    /\ calls = [s \in Sessions |-> NoCall]

InstitutionCodes == {"", "c1", "c3"}
RegistrationNumbers == {"", "r1", "r3"}
VerifyActions == {"verify", "unverify", ""}

(* The rows the verify pages are opened for: one that exists from the      *)
(* start, and the one a create adds                                        *)
GovInstitutionPks == {"i1", "i3"}
GovBusinessPks == {"b1", "b3"}

(* Every actor tries the business registration and the verifications that *)
(* would succeed; the government user "hr2" also makes every other call,   *)
(* and the superuser also takes a business verification back               *)
InstitutionCreateCalls ==
    {<<a, "POST", "c3">> : a \in {"hr1", "hr2"}}
    \cup {<<"hr2", "POST", c>> : c \in InstitutionCodes} \cup {<<"hr2", "GET", "">>}

BusinessCreateCalls ==
    {<<a, "POST", "r3">> : a \in Actors}
    \cup {<<"hr2", "POST", r>> : r \in RegistrationNumbers} \cup {<<"hr2", "GET", "">>}

InstitutionVerifyCalls ==
    {<<a, "i1", "POST", "verify">> : a \in Actors}
    \cup {<<"hr2", pk, "POST", x>> : pk \in GovInstitutionPks, x \in VerifyActions}
    \cup {<<"hr2", "i1", "GET", "">>}

BusinessVerifyCalls ==
    {<<a, "b1", "POST", "verify">> : a \in Actors}
    \cup {<<"hr2", pk, "POST", x>> : pk \in GovBusinessPks, x \in VerifyActions}
    \cup {<<"hr2", "b1", "GET", "">>, <<"su", "b1", "POST", "unverify">>}

NextGov ==
    \/ Tick /\ now' <= GovTicks * TickStep
    \/ \E c \in InstitutionCreateCalls :
          institution_create(c[1], c[2], c[3]) /\ Len(audit') <= MaxGovAudit
    \/ \E c \in InstitutionVerifyCalls :
          institution_verify(c[1], c[2], c[3], c[4]) /\ Len(audit') <= MaxGovAudit
    \/ \E c \in BusinessCreateCalls :
          business_create(c[1], c[2], c[3]) /\ Len(audit') <= MaxGovAudit
    \/ \E c \in BusinessVerifyCalls :
          business_verify(c[1], c[2], c[3], c[4]) /\ Len(audit') <= MaxGovAudit

SpecGov == InitGov /\ [][NextGov]_vars

----------------------------------------------------------------------------
(* owner_confirm_otp as the two database round trips it makes, for calls   *)
(* from different sessions that overlap: the SELECT that fetches the       *)
(* pending row, then is_expired() and the UPDATE from the fetched object   *)
(* with the AuditLog INSERT.  Nothing locks the row in between.            *)

owner_confirm_read(s, method, id_no, otp) ==
    LET qs == ConfirmQueryset(id_no, otp)
        call == [NoLast EXCEPT !.op = "owner_confirm_otp"]
    IN
    /\ confirming[s] = {}
    /\ UNCHANGED <<now, owners, requests, audit, certificates, otpAttempts, directory, calls>>
    /\ IF method # "POST" \/ ~OTPConfirmForm_is_valid(id_no, otp)
       THEN /\ last' = [call EXCEPT !.result = "form"]
            /\ UNCHANGED confirming
       ELSE IF qs = {}
       THEN /\ last' = [call EXCEPT !.result = "NotFound"]
            /\ UNCHANGED confirming
       ELSE \E i \in ConfirmFirst(qs) :
            /\ confirming' = [confirming EXCEPT ![s] = {requests[i]}]
            /\ last' = [call EXCEPT !.result = "fetched", !.target = i]

owner_confirm_commit_rechecking(vr) ==
    IF requests[vr.uuid].status # STATUS_PENDING
    THEN requests[vr.uuid]
    ELSE mark_confirmed(vr)

(* vr.mark_confirmed(): save() writes every column from the fetched object *)
owner_confirm_commit(vr) == mark_confirmed(vr)

owner_confirm_save(s) ==
    LET call == [NoLast EXCEPT !.op = "owner_confirm_otp"]
    IN
    /\ confirming[s] # {}
    /\ UNCHANGED <<now, owners, certificates, otpAttempts, directory, calls>>
    /\ confirming' = [confirming EXCEPT ![s] = {}]
    /\ \E vr \in confirming[s] :
          IF is_expired(vr)
          THEN /\ requests' = [requests EXCEPT ![vr.uuid] = owner_confirm_expire(vr)]
               /\ last' = [call EXCEPT !.result = "Expired", !.target = vr.uuid]
               /\ UNCHANGED audit
          ELSE /\ requests' = [requests EXCEPT ![vr.uuid] = owner_confirm_commit(vr)]
               /\ audit' = Append(audit, AuditEntry(None, "owner_confirmed", vr.id_no, vr.uuid, None))
               /\ last' = [call EXCEPT !.result = "confirmed", !.target = vr.uuid]

NextRace ==
    \/ Tick /\ now' <= MaxTicks * TickStep
    \/ \E c \in OwnerProfileCalls : owner_profile(c[1], c[2])
    \/ \E c \in HrVerifyCalls : hr_verify(c[1], c[2], c[3], c[4]) /\ Len(requests') <= OneRequest
    \/ \E s \in Sessions, c \in ConfirmCalls : owner_confirm_read(s, c[1], c[2], c[3])
    \/ \E s \in Sessions : owner_confirm_save(s)

SpecRace == Init /\ [][NextRace]_vars

----------------------------------------------------------------------------
(* Properties of the verification-request lifecycle *)

PendingMatches(id_no, otp) ==
    { i \in DOMAIN requests :
        requests[i].status = "pending" /\ requests[i].id_no = id_no /\ requests[i].otp = otp }

Latest(S) == { i \in S : \A j \in S : requests[j].created_at <= requests[i].created_at }

WellFormed(id_no, otp) == id_no # <<>> /\ otp # <<>> /\ Len(otp) <= 10 /\ Len(id_no) <= 50

MayView(a, r) ==
    \/ a = "su"
    \/ a = r.hr_user
    \/ r.hr_business # None /\ a \in BusinessStaff(r.hr_business)

OneMoreAudit(user, action) ==
    /\ Len(audit') = Len(audit) + 1
    /\ SubSeq(audit', 1, Len(audit)) = audit
    /\ audit'[Len(audit')].user = user
    /\ audit'[Len(audit')].action = action

(* C1: with atomic handlers, every request's status is one of pending,    *)
(* confirmed, expired; a new request starts pending; and a stored status   *)
(* of confirmed or expired never changes again.                            *)
C1_StatusMonotonic ==
    [][ /\ \A i \in DOMAIN requests' :
            requests'[i].status \in {"pending", "confirmed", "expired"}
        /\ \A i \in DOMAIN requests' \ DOMAIN requests :
            requests'[i].status = "pending"
        /\ \A i \in DOMAIN requests :
            /\ i \in DOMAIN requests'
            /\ requests[i].status \in {"confirmed", "expired"}
                  => requests'[i].status = requests[i].status ]_vars

(* A detail read of a confirmed request after its deadline left it confirmed *)
C1_Witness ==
    /\ last.op = "hr_request_status"
    /\ last.target \in DOMAIN requests
    /\ requests[last.target].status = "confirmed"
    /\ now > requests[last.target].otp_expires_at

(* C2: Confirm(id_no, otp) selects, among the pending requests with that   *)
(* id_no and otp, one with the greatest created_at; if it is not expired   *)
(* at the call, its status becomes confirmed, its confirmed_at the current *)
(* time, and exactly one "owner_confirmed" audit entry with no user is     *)
(* appended.                                                               *)
C2_ConfirmLatestPending ==
    [][ \A c \in ConfirmCalls :
          ( /\ last'.op = "owner_confirm_otp"
            /\ owner_confirm_otp(c[1], c[2], c[3])
            /\ c[1] = "POST"
            /\ WellFormed(c[2], c[3])
            /\ PendingMatches(c[2], c[3]) # {} )
          => \E i \in Latest(PendingMatches(c[2], c[3])) :
                /\ last'.target = i
                /\ now <= requests[i].otp_expires_at
                     => /\ last'.result = "confirmed"
                        /\ requests'[i].status = "confirmed"
                        /\ requests'[i].confirmed_at = now
                        /\ OneMoreAudit(None, "owner_confirmed") ]_vars

(* A Confirm succeeded on the newer of two pending requests with the same  *)
(* id_no and otp                                                           *)
C2_Witness ==
    /\ last.op = "owner_confirm_otp"
    /\ last.result = "confirmed"
    /\ requests[last.target].confirmed_at = now
    /\ \E j \in DOMAIN requests :
          /\ requests[j].status = "pending"
          /\ requests[j].id_no = requests[last.target].id_no
          /\ requests[j].otp = requests[last.target].otp
          /\ requests[j].created_at < requests[last.target].created_at

(* C3: View by an authorized actor shows certificates (can_view) only if   *)
(* the request is confirmed and the current time is not after              *)
(* otp_expires_at; a request confirmed before its deadline and viewed      *)
(* after it gets no certificates, no viewed_at and no audit entry.         *)
C3_ViewRechecksExpiry ==
    [][ \A a \in Users, u \in Uuids :
          ( /\ last'.op = "hr_view_request"
            /\ hr_view_request(a, u)
            /\ u \in DOMAIN requests
            /\ MayView(a, requests[u]) )
          => /\ (last'.can_view \/ last'.certs # {})
                  => /\ requests[u].status = "confirmed"
                     /\ now <= requests[u].otp_expires_at
             /\ ( /\ requests[u].status = "confirmed"
                  /\ requests[u].confirmed_at <= requests[u].otp_expires_at
                  /\ now > requests[u].otp_expires_at )
                  => /\ ~last'.can_view
                     /\ last'.certs = {}
                     /\ requests' = requests
                     /\ audit' = audit ]_vars

(* A confirmed, never viewed request was opened after its deadline *)
C3_Witness ==
    /\ last.op = "hr_view_request"
    /\ last.result = "ok"
    /\ ~last.can_view
    /\ requests[last.target].status = "confirmed"
    /\ requests[last.target].viewed_at = Null
    /\ now > requests[last.target].otp_expires_at

(* C4: View by an actor who is not a superuser, not the request's hr_user  *)
(* and not staff of its hr_business is denied whatever the status: no      *)
(* certificates, no change to the request, no audit entry.                 *)
C4_OutsiderDenied ==
    [][ \A a \in Actors, u \in Uuids :
          ( /\ last'.op \in {"hr_view_request", "login_required"}
            /\ hr_view_request(a, u)
            /\ u \in DOMAIN requests
            /\ ~MayView(a, requests[u]) )
          => /\ last'.result \in {"Forbidden", "login_redirect"}
             /\ ~last'.can_view
             /\ last'.certs = {}
             /\ requests' = requests
             /\ audit' = audit ]_vars

(* An outsider was refused a confirmed request still inside its window *)
C4_Witness ==
    /\ last.op = "hr_view_request"
    /\ last.result = "Forbidden"
    /\ requests[last.target].status = "confirmed"
    /\ now <= requests[last.target].otp_expires_at

(* C5: every read path that exposes a request's status applies the lazy    *)
(* expiry check: after a list, detail, owner-confirm or HR-view operation  *)
(* has read a pending request whose otp_expires_at is before the current   *)
(* time, that request's stored status is expired.                          *)
C5_EveryReadExpires ==
    [][ LET Overdue(i) == /\ requests[i].status = "pending"
                          /\ requests[i].otp_expires_at < now
        IN
        /\ \A a \in Users :
              (last'.op = "hr_request_list" /\ hr_request_list(a))
              => \A i \in DOMAIN requests :
                    (MayView(a, requests[i]) /\ Overdue(i))
                    => requests'[i].status = "expired"
        /\ \A a \in Users, u \in DOMAIN requests :
              (last'.op = "hr_request_status" /\ hr_request_status(a, u) /\ Overdue(u))
              => requests'[u].status = "expired"
        /\ \A c \in ConfirmCalls :
              ( /\ last'.op = "owner_confirm_otp"
                /\ owner_confirm_otp(c[1], c[2], c[3])
                /\ last'.target \in DOMAIN requests
                /\ Overdue(last'.target) )
              => requests'[last'.target].status = "expired"
        /\ \A a \in Users, u \in DOMAIN requests :
              ( /\ last'.op = "hr_view_request"
                /\ hr_view_request(a, u)
                /\ MayView(a, requests[u])
                /\ Overdue(u) )
              => requests'[u].status = "expired" ]_vars

(* C6: Confirm(id_no, otp) with no pending request of that id_no and otp   *)
(* answers NotFound, the same whether the id_no has no request at all or   *)
(* only the otp is wrong, and changes no request and appends no audit      *)
(* entry.                                                                  *)
C6_ConfirmNotFound ==
    [][ \A c \in ConfirmCalls :
          ( /\ last'.op = "owner_confirm_otp"
            /\ owner_confirm_otp(c[1], c[2], c[3])
            /\ c[1] = "POST"
            /\ WellFormed(c[2], c[3])
            /\ PendingMatches(c[2], c[3]) = {} )
          => /\ last'.result = "NotFound"
             /\ last'.target = 0
             /\ requests' = requests
             /\ audit' = audit ]_vars

(* A Confirm was answered NotFound while a request was pending *)
C6_Witness ==
    /\ last.op = "owner_confirm_otp"
    /\ last.result = "NotFound"
    /\ \E i \in DOMAIN requests :
          requests[i].status = "pending" /\ now <= requests[i].otp_expires_at

(* C7: Confirm(id_no, otp) whose selected pending request is past its      *)
(* otp_expires_at answers Expired, stores status expired, leaves           *)
(* confirmed_at unset and appends no audit entry.                          *)
C7_ConfirmExpired ==
    [][ \A c \in ConfirmCalls :
          ( /\ last'.op = "owner_confirm_otp"
            /\ owner_confirm_otp(c[1], c[2], c[3])
            /\ c[1] = "POST"
            /\ WellFormed(c[2], c[3])
            /\ PendingMatches(c[2], c[3]) # {} )
          => \E i \in Latest(PendingMatches(c[2], c[3])) :
                /\ last'.target = i
                /\ now > requests[i].otp_expires_at
                     => /\ last'.result = "Expired"
                        /\ requests'[i].status = "expired"
                        /\ requests'[i].confirmed_at = Null
                        /\ audit' = audit ]_vars

(* A Confirm came too late and expired the request *)
C7_Witness ==
    /\ last.op = "owner_confirm_otp"
    /\ last.result = "Expired"
    /\ requests[last.target].status = "expired"
    /\ requests[last.target].confirmed_at = Null
    /\ now > requests[last.target].otp_expires_at

(* A Confirm that repeats, with the same id_no and otp, the successful     *)
(* Confirm answered just before it                                         *)
RepeatsConfirm(c) ==
    /\ last.op = "owner_confirm_otp"
    /\ last.result = "confirmed"
    /\ last'.op = "owner_confirm_otp"
    /\ owner_confirm_otp(c[1], c[2], c[3])
    /\ c[1] = "POST"
    /\ c[2] = requests[last.target].id_no
    /\ c[3] = requests[last.target].otp

(* C8 as stated: after a successful Confirm(id_no, otp), a second Confirm  *)
(* with the same id_no and otp answers NotFound and changes no request, in *)
(* every reachable store.                                                  *)
C8_SecondConfirmNotFound ==
    [][ \A c \in ConfirmCalls :
          RepeatsConfirm(c)
          => last'.result = "NotFound" /\ requests' = requests ]_vars

(* C8 amended: after a successful Confirm(id_no, otp), a second Confirm    *)
(* with the same id_no and otp never changes the request the first one     *)
(* confirmed; it answers NotFound and changes no request unless another    *)
(* request with the same id_no and the same otp is still pending, and then *)
(* it acts on one of those (confirmed or Expired).                         *)
C8_SecondConfirmAmended ==
    [][ \A c \in ConfirmCalls :
          RepeatsConfirm(c)
          => LET first == last.target
                 others == PendingMatches(c[2], c[3]) \ {first}
             IN /\ requests'[first] = requests[first]
                /\ requests[first].status = "confirmed"
                /\ others = {}
                     => last'.result = "NotFound" /\ requests' = requests
                /\ others # {}
                     => /\ last'.result \in {"confirmed", "Expired"}
                        /\ last'.target \in others ]_vars

(* The second Confirm found nothing, in a store with two requests for the  *)
(* same id_no                                                              *)
C8_Witness ==
    /\ last.op = "owner_confirm_otp"
    /\ last.repeat
    /\ last.result = "NotFound"
    /\ Len(requests) = 2
    /\ requests[1].id_no = requests[2].id_no
    /\ \E i \in DOMAIN requests : requests[i].status = "confirmed"

(* C9: Create for an id_no that has no OwnerProfile fails, creates no      *)
(* request, attempts no OTP delivery and appends no audit entry.           *)
C9_CreateNeedsOwner ==
    [][ \A c \in HrVerifyCalls :
          ( /\ last'.op \in {"hr_verify", "login_required"}
            /\ hr_verify(c[1], c[2], c[3], c[4])
            /\ c[2] = "POST"
            /\ c[3] \notin owners )
          => /\ last'.result \in {"NoOwner", "NotAuthorized", "form_invalid", "login_redirect"}
             /\ requests' = requests
             /\ otpAttempts' = otpAttempts
             /\ audit' = audit ]_vars

(* A Create for an unregistered id_no was refused in a store that already  *)
(* holds a request                                                         *)
C9_Witness ==
    /\ last.op = "hr_verify"
    /\ last.result = "NoOwner"
    /\ requests # <<>>
    /\ Len(otpAttempts) = Len(requests)

(* C10: Create with a business supplied succeeds exactly when the          *)
(* requesting user is a superuser or a staff member of that business and   *)
(* the owner exists; in every other case no request and no audit entry is  *)
(* created.                                                                *)
C10_CreateForBusiness ==
    [][ \A c \in HrVerifyCalls :
          ( /\ last'.op \in {"hr_verify", "login_required"}
            /\ hr_verify(c[1], c[2], c[3], c[4])
            /\ c[2] = "POST"
            /\ c[4] # None )
          => /\ last'.result = "created"
                  <=> /\ c[1] = "su" \/ c[1] \in BusinessStaff(c[4])
                      /\ c[3] \in owners
             /\ last'.result # "created"
                  => requests' = requests /\ audit' = audit ]_vars

(* C11: a successful Create persists exactly one new request: pending, an  *)
(* otp of exactly 6 decimal digits, otp_expires_at = creation time + 10    *)
(* minutes, confirmed_at and viewed_at unset; and appends exactly one      *)
(* "requested_verification" audit entry attributed to the requesting user, *)
(* whether OTP delivery succeeded or raised.                               *)
C11_CreatePersists ==
    [][ \A c \in HrVerifyCalls :
          ( /\ last'.op = "hr_verify"
            /\ hr_verify(c[1], c[2], c[3], c[4])
            /\ last'.result = "created" )
          => LET n == Len(requests) + 1
                 r == requests'[n]
             IN /\ Len(requests') = n
                /\ SubSeq(requests', 1, n - 1) = requests
                /\ r.status = "pending"
                /\ Len(r.otp) = 6
                /\ \A k \in 1 .. 6 : r.otp[k] \in 0 .. 9
                /\ r.created_at = now
                /\ r.otp_expires_at = r.created_at + 10
                /\ r.confirmed_at = Null
                /\ r.viewed_at = Null
                /\ r.hr_user = c[1]
                /\ r.id_no = c[3]
                /\ OneMoreAudit(c[1], "requested_verification")
                /\ last'.delivery \in {"delivered", "raised"} ]_vars

(* A Create went through although the OTP delivery raised *)
C11_Witness ==
    /\ last.op = "hr_verify"
    /\ last.result = "created"
    /\ last.delivery = "raised"
    /\ last.target = Len(requests)
    /\ requests[last.target].status = "pending"
    /\ audit[Len(audit)].action = "requested_verification"

(* C12: a successful View (authorized actor, confirmed, not expired)       *)
(* returns exactly the certificates whose owner_id_no equals the request's *)
(* id_no, linked to an owner or not, sets viewed_at to the current time    *)
(* and appends exactly one "hr_viewed" audit entry attributed to the       *)
(* viewing actor.                                                          *)
C12_ViewReturnsCertificates ==
    [][ \A a \in Users, u \in Uuids :
          ( /\ last'.op = "hr_view_request"
            /\ hr_view_request(a, u)
            /\ u \in DOMAIN requests
            /\ MayView(a, requests[u])
            /\ requests[u].status = "confirmed"
            /\ now <= requests[u].otp_expires_at )
          => /\ last'.can_view
             /\ last'.certs = { c.pk : c \in { d \in certificates :
                                                 d.owner_id_no = requests[u].id_no } }
             /\ requests'[u].viewed_at = now
             /\ \A i \in DOMAIN requests : i # u => requests'[i] = requests[i]
             /\ OneMoreAudit(a, "hr_viewed") ]_vars

(* A View returned the two certificates recorded for id_no "A", neither of *)
(* them linked to an owner                                                 *)
C12_Witness ==
    /\ last.op = "hr_view_request"
    /\ last.can_view
    /\ Cardinality(last.certs) = 2
    /\ \A c \in certificates : c.pk \in last.certs => c.owner = <<>>
    /\ requests[last.target].viewed_at = now
    /\ audit[Len(audit)].action = "hr_viewed"

(* C14: after Create, no operation changes a request's otp_expires_at,     *)
(* otp, id_no, uuid, hr_user or created_at, and no request is removed; a   *)
(* new Create for the same id_no leaves the deadlines of the existing      *)
(* requests as they were.                                                  *)
C14_CreateFieldsFrozen ==
    [][ \A i \in DOMAIN requests :
          /\ i \in DOMAIN requests'
          /\ requests'[i].otp_expires_at = requests[i].otp_expires_at
          /\ requests'[i].otp = requests[i].otp
          /\ requests'[i].id_no = requests[i].id_no
          /\ requests'[i].uuid = requests[i].uuid
          /\ requests'[i].hr_user = requests[i].hr_user
          /\ requests'[i].created_at = requests[i].created_at ]_vars

(* A second Create for the same id_no came after the first request's       *)
(* deadline had passed and been recorded, and the first deadline stands    *)
C14_Witness ==
    /\ last.op = "hr_verify"
    /\ last.result = "created"
    /\ Len(requests) = 2
    /\ requests[1].id_no = requests[2].id_no
    /\ requests[1].status = "expired"
    /\ requests[1].otp_expires_at = requests[1].created_at + 10
    /\ requests[1].otp_expires_at < requests[2].created_at

(* C13: viewed_at is assigned at most once: once it is non-null, every     *)
(* later operation, a later successful View of the same request included,  *)
(* leaves it unchanged.                                                    *)
C13_ViewedAtOnce ==
    [][ \A i \in DOMAIN requests :
          requests[i].viewed_at # Null
          => /\ i \in DOMAIN requests'
             /\ requests'[i].viewed_at = requests[i].viewed_at ]_vars

(* C15: when two Confirm calls for the same id_no and otp overlap, the     *)
(* read of the pending row and the write of the confirmed row being        *)
(* separate steps, the write of a call that read the row as pending goes   *)
(* through whatever the other call has stored meanwhile: it stores         *)
(* confirmed, writes confirmed_at and appends an "owner_confirmed" audit   *)
(* entry, so both calls complete successfully on one request.              *)
C15_RaceBothConfirm ==
    [][ \A s \in Sessions :
          (confirming[s] # {} /\ owner_confirm_save(s))
          => \A vr \in confirming[s] :
                /\ vr.status = "pending"
                /\ now <= vr.otp_expires_at
                     => /\ last'.result = "confirmed"
                        /\ requests'[vr.uuid].status = "confirmed"
                        /\ requests'[vr.uuid].confirmed_at = now
                        /\ OneMoreAudit(None, "owner_confirmed") ]_vars

(* One request carries two "owner_confirmed" audit entries, written at     *)
(* different times, and its confirmed_at is the later of the two           *)
C15_Witness ==
    \E j, k \in DOMAIN audit :
        /\ j < k
        /\ audit[j].action = "owner_confirmed"
        /\ audit[k].action = "owner_confirmed"
        /\ audit[j].details.uuid = audit[k].details.uuid
        /\ audit[j].created_at < audit[k].created_at
        /\ requests[audit[k].details.uuid].status = "confirmed"
        /\ requests[audit[k].details.uuid].confirmed_at = audit[k].created_at

(* The five capabilities, by the name of the group that would grant each *)
Capability(roles, g) ==
    CASE g = "government" -> roles.is_government
      [] g = "institution_staff" -> roles.is_institution_staff
      [] g = "business_hr" -> roles.is_business_hr
      [] g = "owner" -> roles.is_owner
      [] g = "admin" -> roles.is_admin

(* C16 as stated: role derivation gives a superuser all five capabilities, *)
(* an anonymous actor none, and any other authenticated actor each of the  *)
(* five exactly when the actor is in the group of the same name.           *)
C16_RolesAsStated ==
    [][ \A a \in Actors :
          (last'.op = "home" /\ home(a))
          => \A g \in GroupNames :
                Capability(last'.roles, g)
                   <=> \/ a = "su"
                       \/ a # "anon" /\ g \in groups[a] ]_vars

(* C16 amended: a superuser gets all five capabilities, an anonymous actor *)
(* none, and any other authenticated actor gets each of government,        *)
(* institution_staff, business_hr and owner exactly when in the group of   *)
(* the same name, and never admin: admin is the superuser flag alone.      *)
C16_RolesAmended ==
    [][ \A a \in Actors :
          (last'.op = "home" /\ home(a))
          => \A g \in GroupNames :
                Capability(last'.roles, g)
                   <=> \/ a = "su"
                       \/ a # "anon" /\ g # "admin" /\ g \in groups[a] ]_vars

(* The dashboard answered a user who is in the groups "admin" and          *)
(* "government" and no other: government only                              *)
C16_Witness ==
    /\ last.op = "home"
    /\ groups["hr1"] = {"admin", "government"}
    /\ last.roles = [NoRoles EXCEPT !.is_government = TRUE]

(* Government-capable: a superuser or a member of the group "government" *)
GovernmentCapable(a) == a = "su" \/ (a \in Users /\ "government" \in groups[a])

(* C17: the verified flag of an Institution or Business changes only by a  *)
(* verify/unverify toggle of a government-capable actor; each toggle sets  *)
(* the flag and appends exactly one audit entry; a Business verify sets    *)
(* verified_by to the actor and verified_at to the current time, and a     *)
(* Business unverify clears both.                                          *)
C17_VerifiedByGovernment ==
    [][ LET Toggle(c) == c[3] = "POST" /\ c[4] \in {"verify", "unverify"}
        IN
        /\ \A pk \in DOMAIN institutions :
              /\ pk \in DOMAIN institutions'
              /\ institutions'[pk].verified # institutions[pk].verified
                   => \E c \in InstitutionVerifyCalls :
                         /\ GovernmentCapable(c[1]) /\ c[2] = pk /\ Toggle(c)
                         /\ institution_verify(c[1], c[2], c[3], c[4])
        /\ \A pk \in DOMAIN businesses :
              /\ pk \in DOMAIN businesses'
              /\ businesses'[pk].verified # businesses[pk].verified
                   => \E c \in BusinessVerifyCalls :
                         /\ GovernmentCapable(c[1]) /\ c[2] = pk /\ Toggle(c)
                         /\ business_verify(c[1], c[2], c[3], c[4])
        /\ \A c \in InstitutionVerifyCalls :
              ( /\ last'.op \in {"institution_verify", "gov_required", "login_required"}
                /\ Toggle(c) /\ c[2] \in DOMAIN institutions
                /\ institution_verify(c[1], c[2], c[3], c[4]) )
              => IF GovernmentCapable(c[1])
                 THEN /\ institutions'[c[2]].verified = (c[4] = "verify")
                      /\ OneMoreAudit(c[1], IF c[4] = "verify" THEN "institution_verified"
                                            ELSE "institution_unverified")
                 ELSE institutions' = institutions /\ audit' = audit
        /\ \A c \in BusinessVerifyCalls :
              ( /\ last'.op \in {"business_verify", "gov_required", "login_required"}
                /\ Toggle(c) /\ c[2] \in DOMAIN businesses
                /\ business_verify(c[1], c[2], c[3], c[4]) )
              => IF GovernmentCapable(c[1])
                 THEN /\ businesses'[c[2]].verified = (c[4] = "verify")
                      /\ businesses'[c[2]].verified_by = IF c[4] = "verify" THEN c[1] ELSE "None"
                      /\ businesses'[c[2]].verified_at = IF c[4] = "verify" THEN now ELSE -1
                      /\ OneMoreAudit(c[1], IF c[4] = "verify" THEN "business_verified"
                                            ELSE "business_unverified")
                 ELSE businesses' = businesses /\ audit' = audit ]_vars

(* A business was verified by the government user at minute 10 and the     *)
(* superuser took the verification back                                    *)
C17_Witness ==
    /\ last.op = "business_verify"
    /\ Len(audit) = 2
    /\ audit[1].action = "business_verified" /\ audit[1].user = "hr2" /\ audit[1].created_at = 10
    /\ audit[2].action = "business_unverified" /\ audit[2].user = "su"
    /\ ~businesses["b1"].verified
    /\ businesses["b1"].verified_by = "None"
    /\ businesses["b1"].verified_at = -1

(* A valid POST to business_create *)
RegistersBusiness(c) ==
    /\ last'.op \in {"business_create", "gov_required", "login_required"}
    /\ business_create(c[1], c[2], c[3])
    /\ c[2] = "POST"
    /\ c[3] # ""
    /\ \A b \in DOMAIN businesses : businesses[b].registration_number # c[3]

(* C20 as stated: business_create succeeds for every authenticated actor,  *)
(* government-capable or not, and creates a Business with verified false   *)
(* and registered_by that actor.                                           *)
C20_AnyUserRegisters ==
    [][ \A c \in BusinessCreateCalls :
          (RegistersBusiness(c) /\ c[1] \in Users)
          => \E pk \in DOMAIN businesses' \ DOMAIN businesses :
                /\ ~businesses'[pk].verified
                /\ businesses'[pk].registered_by = c[1] ]_vars

(* C20 amended: business_create succeeds for every government-capable      *)
(* actor (superuser or member of the group "government") and creates       *)
(* exactly one Business, with verified false and registered_by that actor, *)
(* and one audit entry; any other actor, authenticated or not, is sent to  *)
(* the login page and no Business and no audit entry is created.           *)
C20_GovernmentRegisters ==
    [][ \A c \in BusinessCreateCalls :
          RegistersBusiness(c)
          => IF GovernmentCapable(c[1])
             THEN /\ \E pk \in DOMAIN businesses' \ DOMAIN businesses :
                        /\ DOMAIN businesses' = DOMAIN businesses \cup {pk}
                        /\ ~businesses'[pk].verified
                        /\ businesses'[pk].registered_by = c[1]
                        /\ businesses'[pk].registration_number = c[3]
                  /\ \A b \in DOMAIN businesses : businesses'[b] = businesses[b]
                  /\ OneMoreAudit(c[1], "business_registered")
             ELSE /\ last'.result = "login_redirect"
                  /\ businesses' = businesses
                  /\ audit' = audit ]_vars

(* After the government user registered a business, a user outside the     *)
(* government group asked for the registration page and was sent to log in *)
C20_Witness ==
    /\ last.op = "gov_required"
    /\ last.next = "business_create"
    /\ "b3" \in DOMAIN businesses
    /\ businesses["b3"].registered_by = "hr2"
    /\ ~businesses["b3"].verified
    /\ Len(audit) = 1

(* A superuser or a staff member of the institution *)
MayManage(a, i) == a = "su" \/ a \in InstitutionStaff(i)

(* C18: certificate list, create, edit and delete for an institution       *)
(* succeed only for a superuser or a staff member of that institution; any *)
(* other actor is refused, no certificate is created, changed or deleted   *)
(* and no audit entry is appended.                                         *)
C18_CertStaffOnly ==
    [][ LET Refused == /\ last'.result \in {"Forbidden", "login_redirect", "404"}
                       /\ last'.certs = {}
                       /\ certificates' = certificates
                       /\ audit' = audit
            Handled(op) == last'.op \in {op, "login_required", "get_object_or_404"}
        IN
        /\ \A c \in CertListCalls :
              ( /\ Handled("institution_cert_list")
                /\ ~MayManage(c[1], c[2])
                /\ institution_cert_list(c[1], c[2]) )
              => Refused
        /\ \A c \in CertCreateCalls :
              ( /\ Handled("institution_cert_create")
                /\ ~MayManage(c[1], c[2])
                /\ institution_cert_create(c[1], c[2], c[3], c[4], c[5]) )
              => Refused
        /\ \A c \in CertEditCalls :
              ( /\ Handled("institution_cert_edit")
                /\ ~MayManage(c[1], c[2])
                /\ institution_cert_edit(c[1], c[2], c[3], c[4], c[5], c[6]) )
              => Refused
        /\ \A c \in CertDeleteCalls :
              ( /\ Handled("institution_cert_delete")
                /\ ~MayManage(c[1], c[2])
                /\ institution_cert_delete(c[1], c[2], c[3], c[4]) )
              => Refused ]_vars

(* An edit was refused after a certificate had been added and one deleted  *)
C18_Witness ==
    /\ last.op = "institution_cert_edit"
    /\ last.result = "Forbidden"
    /\ Len(audit) = 2
    /\ audit[1].action = "certificate_added"
    /\ audit[2].action = "certificate_deleted"

(* C19: every certificate create or edit sets the owner link to the        *)
(* OwnerProfile whose id_no equals the certificate's owner_id_no if one    *)
(* exists at save time, and to null otherwise; registering an OwnerProfile *)
(* changes the owner link of no existing certificate.                      *)
C19_OwnerLinkOnSave ==
    [][ LET Linked(cert, id_no) ==
                /\ cert.owner_id_no = id_no
                /\ cert.owner = IF id_no \in owners THEN id_no ELSE <<>>
        IN
        /\ \A c \in CertCreateCalls :
              ( /\ last'.op = "institution_cert_create"
                /\ institution_cert_create(c[1], c[2], c[3], c[4], c[5])
                /\ last'.result = "redirect" )
              => \E cert \in certificates' \ certificates :
                    /\ certificates' = certificates \cup {cert}
                    /\ \A d \in certificates : d.pk # cert.pk
                    /\ Linked(cert, c[5])
        /\ \A c \in CertEditCalls :
              ( /\ last'.op = "institution_cert_edit"
                /\ institution_cert_edit(c[1], c[2], c[3], c[4], c[5], c[6])
                /\ last'.result = "redirect" )
              => /\ \E cert \in certificates' : cert.pk = c[3] /\ Linked(cert, c[6])
                 /\ \A d \in certificates : d.pk # c[3] => d \in certificates'
                 /\ Cardinality(certificates') = Cardinality(certificates)
        /\ \A c \in CertOwnerProfileCalls :
              (last'.op = "owner_profile" /\ owner_profile(c[1], c[2]))
              => certificates' = certificates ]_vars

(* Certificate 4 was added for "A" before "A" registered and is still      *)
(* unlinked after the registration, while certificate 1, edited after it,  *)
(* is linked                                                               *)
C19_Witness ==
    /\ last.op = "owner_profile"
    /\ last.result = "saved"
    /\ <<"A">> \in owners
    /\ \E c \in certificates : c.pk = 4 /\ c.owner_id_no = <<"A">> /\ c.owner = <<>>
    /\ \E c \in certificates : c.pk = 1 /\ c.owner_id_no = <<"A">> /\ c.owner = <<"A">>

----------------------------------------------------------------------------
(* Properties of the request detail read, the timestamps and the frame of  *)
(* Confirm                                                                 *)

(* C25: the detail read hr_request_status, and the pending-to-expired      *)
(* write it can perform, happens only for a superuser, the request's       *)
(* hr_user or a staff member of its hr_business; any other actor gets no   *)
(* status page and causes no change to the request.                        *)
C25_StatusReadAuthorized ==
    [][ \A a \in Actors, u \in Uuids :
          ( /\ last'.op \in {"hr_request_status", "login_required"}
            /\ u \in DOMAIN requests
            /\ ~MayView(a, requests[u])
            /\ hr_request_status(a, u) )
          => /\ last'.result # "ok"
             /\ requests' = requests ]_vars

(* C27: with atomic handlers, in every reachable state confirmed_at is     *)
(* non-null exactly when the status is confirmed; viewed_at is non-null    *)
(* only on a confirmed request with a confirmed_at, which is then not      *)
(* after viewed_at; a pending or expired request has neither timestamp.    *)
C27_TimestampsAgree ==
    \A i \in DOMAIN requests :
        LET r == requests[i] IN
        /\ (r.confirmed_at # Null) <=> (r.status = "confirmed")
        /\ r.viewed_at # Null
             => /\ r.status = "confirmed"
                /\ r.confirmed_at # Null
                /\ r.confirmed_at <= r.viewed_at
        /\ r.status \in {"pending", "expired"}
             => r.confirmed_at = Null /\ r.viewed_at = Null

(* One request was confirmed and viewed later than it was confirmed, and   *)
(* another one expired                                                     *)
C27_Witness ==
    /\ \E i \in DOMAIN requests :
          /\ requests[i].status = "confirmed"
          /\ requests[i].viewed_at # Null
          /\ requests[i].confirmed_at < requests[i].viewed_at
    /\ \E j \in DOMAIN requests : requests[j].status = "expired"

(* C30: a Confirm call changes at most one request: ending in success or   *)
(* Expired it changes only the selected most recent pending match, ending  *)
(* in NotFound it changes none; every other request, a pending one with    *)
(* the same id_no and otp or one past its deadline included, keeps all its *)
(* fields.                                                                 *)
C30_ConfirmChangesOne ==
    [][ \A c \in ConfirmCalls :
          ( /\ last'.op = "owner_confirm_otp"
            /\ owner_confirm_otp(c[1], c[2], c[3]) )
          => /\ DOMAIN requests' = DOMAIN requests
             /\ last'.result \in {"form", "NotFound"} => requests' = requests
             /\ last'.result \in {"confirmed", "Expired"}
                  => /\ last'.target \in Latest(PendingMatches(c[2], c[3]))
                     /\ \A j \in DOMAIN requests \ {last'.target} :
                           requests'[j] = requests[j] ]_vars

(* A Confirm succeeded on the newer of two pending requests with the same  *)
(* id_no and otp while the older one, past its deadline, stayed pending    *)
C30_Witness ==
    /\ last.op = "owner_confirm_otp"
    /\ last.result = "confirmed"
    /\ \E j \in DOMAIN requests \ {last.target} :
          /\ requests[j].status = "pending"
          /\ requests[j].id_no = requests[last.target].id_no
          /\ requests[j].otp = requests[last.target].otp
          /\ now > requests[j].otp_expires_at

----------------------------------------------------------------------------
(* The institution of an edited certificate *)

(* C29: an edit through institution I's endpoint by an actor authorized    *)
(* for I leaves the certificate in I: a non-superuser never moves a        *)
(* certificate into an institution they do not staff.                      *)
C29_EditKeepsInstitution ==
    [][ \A c \in CertEditCalls :
          ( /\ last'.op = "institution_cert_edit"
            /\ last'.result = "redirect"
            /\ MayManage(c[1], c[2])
            /\ institution_cert_edit(c[1], c[2], c[3], c[4], c[5], c[6]) )
          => \A k \in certificates' :
                k.pk = c[3] => /\ k.institution = c[2]
                               /\ MayManage(c[1], k.institution) ]_vars

----------------------------------------------------------------------------
(* The second View handler, institution.views.hr_view_owner.  Its route     *)
(* hr/request/<uuid>/view/ is listed after core's route of the same path,  *)
(* so the URL resolver never selects it; it is modelled as a handler that  *)
(* is called directly.                                                     *)

hr_view_owner_allowed(user, vr) ==
    \/ is_superuser(user)
    \/ vr.hr_user # None /\ vr.hr_user = user

hr_view_owner(actor, uuid) ==
    LET call == [NoLast EXCEPT !.op = "hr_view_owner"]
    IN
    /\ UNCHANGED <<now, owners, certificates, otpAttempts>>
    /\ UNCHANGED <<directory, inflight>>
    /\ IF ~is_authenticated(actor)
       THEN /\ last' = LoginRedirect
            /\ UNCHANGED <<requests, audit>>
       ELSE IF uuid \notin DOMAIN requests
       THEN /\ last' = Http404
            /\ UNCHANGED <<requests, audit>>
       ELSE IF ~hr_view_owner_allowed(actor, requests[uuid])
       THEN /\ last' = [call EXCEPT !.result = "Forbidden", !.target = uuid]
            /\ UNCHANGED <<requests, audit>>
       ELSE IF ~hr_view_can_view(requests[uuid])
       THEN /\ last' = [call EXCEPT !.result = "ok", !.target = uuid]
            /\ UNCHANGED <<requests, audit>>
       ELSE /\ requests' = [requests EXCEPT ![uuid].viewed_at = now]
            /\ audit' = Append(audit, AuditEntry(actor, "hr_viewed", requests[uuid].id_no, uuid, None))
            /\ last' = [call EXCEPT !.result = "ok", !.target = uuid, !.can_view = TRUE,
                                    !.certs = { c.pk : c \in CertificatesFor(requests[uuid].id_no) }]

(* One request, opened through either View handler *)
NextTwoViews ==
    \/ Tick /\ now' <= MaxTicks * TickStep
    \/ \E c \in OwnerProfileCalls : owner_profile(c[1], c[2])
    \/ \E c \in ConfirmCalls : owner_confirm_otp(c[1], c[2], c[3])
    \/ \E c \in HrVerifyCalls : hr_verify(c[1], c[2], c[3], c[4]) /\ Len(requests') <= OneRequest
    \/ \E a \in Actors, u \in Uuids : hr_view_request(a, u) /\ NumViews(audit') <= MaxViews
    \/ \E a \in Actors, u \in Uuids : hr_view_owner(a, u) /\ NumViews(audit') <= MaxViews

SpecTwoViews == Init /\ [][NextTwoViews]_vars

(* C26: hr_view_owner answers every call as hr_view_request does: the same *)
(* allow/deny decision, the same can_view, the same certificates, the same *)
(* viewed_at update and the same audit action; in particular it allows a   *)
(* staff member of the request's hr_business who is not the hr_user.       *)
C26_ViewHandlersAgree ==
    [][ \A a \in Users, u \in Uuids :
          ( /\ last'.op = "hr_view_owner"
            /\ u \in DOMAIN requests
            /\ hr_view_owner(a, u) )
          => LET vr == requests[u]
                 allowed == hr_view_allowed(a, vr)
                 shown == allowed /\ hr_view_can_view(vr)
             IN
             /\ (last'.result # "Forbidden") <=> allowed
             /\ last'.can_view = shown
             /\ last'.certs = IF shown THEN { c.pk : c \in CertificatesFor(vr.id_no) } ELSE {}
             /\ requests' = IF shown THEN [requests EXCEPT ![u].viewed_at = now] ELSE requests
             /\ IF shown THEN OneMoreAudit(a, "hr_viewed") ELSE audit' = audit ]_vars

----------------------------------------------------------------------------
(* The request list and the View authorization *)

(* C28: the requests hr_request_list returns to an actor are exactly the   *)
(* requests hr_view_request allows that actor to open (all of them for a   *)
(* superuser, otherwise those whose hr_user is the actor or whose          *)
(* hr_business the actor staffs), and the lazy expiry of the list changes  *)
(* only requests of that set.                                              *)
C28_ListMatchesView ==
    [][ \A a \in Users :
          ( /\ last'.op = "hr_request_list"
            /\ hr_request_list(a) )
          => /\ last'.listed = { i \in DOMAIN requests : hr_view_allowed(a, requests[i]) }
             /\ \A i \in DOMAIN requests \ last'.listed : requests'[i] = requests[i] ]_vars

(* A list returned one of two requests and expired it, while the overdue   *)
(* request outside the list stayed pending                                 *)
C28_Witness ==
    /\ last.op = "hr_request_list"
    /\ \E i \in last.listed : requests[i].status = "expired"
    /\ \E j \in DOMAIN requests \ last.listed :
          /\ requests[j].status = "pending"
          /\ now > requests[j].otp_expires_at

----------------------------------------------------------------------------
(* The request handlers statement by statement: the SELECT that fetches    *)
(* the row, the expiry test, which reads the clock, and the save(), which  *)
(* reads the clock again for the timestamp it stores and writes every      *)
(* column from the fetched object.  The clock may advance and other        *)
(* sessions may write between any two of them.                             *)

(* owner_confirm_otp up to qs.order_by("-created_at").first() *)
owner_confirm_otp_fetch(s, method, id_no, otp) ==
    LET qs == ConfirmQueryset(id_no, otp)
        call == [NoLast EXCEPT !.op = "owner_confirm_otp"]
    IN
    /\ calls[s] = NoCall
    /\ UNCHANGED <<now, owners, requests, audit, certificates, otpAttempts, directory, confirming>>
    /\ IF method # "POST" \/ ~OTPConfirmForm_is_valid(id_no, otp)
       THEN /\ last' = [call EXCEPT !.result = "form"]
            /\ UNCHANGED calls
       ELSE IF qs = {}
       THEN /\ last' = [call EXCEPT !.result = "NotFound"]
            /\ UNCHANGED calls
       ELSE \E i \in ConfirmFirst(qs) :
            /\ calls' = [calls EXCEPT ![s] = [op |-> "owner_confirm_otp", pc |-> "fetched",
                                              actor |-> None, vr |-> requests[i]]]
            /\ last' = [call EXCEPT !.result = "fetched", !.target = i]

(* if vr.is_expired(): vr.status = expired; vr.save() *)
owner_confirm_otp_check(s) ==
    LET call == [NoLast EXCEPT !.op = "owner_confirm_otp"]
        vr == calls[s].vr
    IN
    /\ calls[s].op = "owner_confirm_otp"
    /\ calls[s].pc = "fetched"
    /\ UNCHANGED <<now, owners, audit, certificates, otpAttempts, directory, confirming>>
    /\ IF is_expired(vr)
       THEN /\ requests' = [requests EXCEPT ![vr.uuid] = owner_confirm_expire(vr)]
            /\ calls' = [calls EXCEPT ![s] = NoCall]
            /\ last' = [call EXCEPT !.result = "Expired", !.target = vr.uuid]
       ELSE /\ calls' = [calls EXCEPT ![s].pc = "checked"]
            /\ last' = [call EXCEPT !.result = "checked", !.target = vr.uuid]
            /\ UNCHANGED requests

(* vr.mark_confirmed() and the AuditLog row *)
owner_confirm_otp_write(s) ==
    LET call == [NoLast EXCEPT !.op = "owner_confirm_otp"]
        vr == calls[s].vr
    IN
    /\ calls[s].op = "owner_confirm_otp"
    /\ calls[s].pc = "checked"
    /\ UNCHANGED <<now, owners, certificates, otpAttempts, directory, confirming>>
    /\ requests' = [requests EXCEPT ![vr.uuid] = mark_confirmed(vr)]
    /\ audit' = Append(audit, AuditEntry(None, "owner_confirmed", vr.id_no, vr.uuid, None))
    /\ calls' = [calls EXCEPT ![s] = NoCall]
    /\ last' = [call EXCEPT !.result = "confirmed", !.target = vr.uuid]

(* hr_request_status up to get_object_or_404 *)
hr_request_status_fetch(s, actor, uuid) ==
    LET call == [NoLast EXCEPT !.op = "hr_request_status"]
    IN
    /\ calls[s] = NoCall
    /\ UNCHANGED <<now, owners, requests, audit, certificates, otpAttempts, directory, confirming>>
    /\ IF ~is_authenticated(actor)
       THEN /\ last' = LoginRedirect
            /\ UNCHANGED calls
       ELSE IF uuid \notin DOMAIN requests
       THEN /\ last' = Http404
            /\ UNCHANGED calls
       ELSE /\ calls' = [calls EXCEPT ![s] = [op |-> "hr_request_status", pc |-> "fetched",
                                              actor |-> actor, vr |-> requests[uuid]]]
            /\ last' = [call EXCEPT !.result = "fetched", !.target = uuid]

(* the expiry test on the fetched object and vr.save() *)
hr_request_status_save(s) ==
    LET call == [NoLast EXCEPT !.op = "hr_request_status"]
        vr == calls[s].vr
    IN
    /\ calls[s].op = "hr_request_status"
    /\ UNCHANGED <<now, owners, audit, certificates, otpAttempts, directory, confirming>>
    /\ requests' = IF vr.status = STATUS_PENDING /\ is_expired(vr)
                   THEN [requests EXCEPT ![vr.uuid] = hr_request_status_expire(vr)]
                   ELSE requests
    /\ calls' = [calls EXCEPT ![s] = NoCall]
    /\ last' = [call EXCEPT !.result = "ok", !.target = vr.uuid]

(* hr_view_request up to the authorization test, which reads no clock *)
hr_view_request_fetch(s, actor, uuid) ==
    LET call == [NoLast EXCEPT !.op = "hr_view_request"]
    IN
    /\ calls[s] = NoCall
    /\ UNCHANGED <<now, owners, requests, audit, certificates, otpAttempts, directory, confirming>>
    /\ IF ~is_authenticated(actor)
       THEN /\ last' = LoginRedirect
            /\ UNCHANGED calls
       ELSE IF uuid \notin DOMAIN requests
       THEN /\ last' = Http404
            /\ UNCHANGED calls
       ELSE IF ~hr_view_allowed(actor, requests[uuid])
       THEN /\ last' = [call EXCEPT !.result = "Forbidden", !.target = uuid]
            /\ UNCHANGED calls
       ELSE /\ calls' = [calls EXCEPT ![s] = [op |-> "hr_view_request", pc |-> "fetched",
                                              actor |-> actor, vr |-> requests[uuid]]]
            /\ last' = [call EXCEPT !.result = "fetched", !.target = uuid]

(* can_view = confirmed and not vr.is_expired() *)
hr_view_request_check(s) ==
    LET call == [NoLast EXCEPT !.op = "hr_view_request"]
        vr == calls[s].vr
    IN
    /\ calls[s].op = "hr_view_request"
    /\ calls[s].pc = "fetched"
    /\ UNCHANGED <<now, owners, requests, audit, certificates, otpAttempts, directory, confirming>>
    /\ IF ~hr_view_can_view(vr)
       THEN /\ calls' = [calls EXCEPT ![s] = NoCall]
            /\ last' = [call EXCEPT !.result = "ok", !.target = vr.uuid]
       ELSE /\ calls' = [calls EXCEPT ![s].pc = "checked"]
            /\ last' = [call EXCEPT !.result = "checked", !.target = vr.uuid]

(* vr.viewed_at = timezone.now(); vr.save(); the AuditLog row *)
hr_view_request_write(s) ==
    LET call == [NoLast EXCEPT !.op = "hr_view_request"]
        vr == calls[s].vr
    IN
    /\ calls[s].op = "hr_view_request"
    /\ calls[s].pc = "checked"
    /\ UNCHANGED <<now, owners, certificates, otpAttempts, directory, confirming>>
    /\ requests' = [requests EXCEPT ![vr.uuid] = [vr EXCEPT !.viewed_at = now]]
    /\ audit' = Append(audit, AuditEntry(calls[s].actor, "hr_viewed", vr.id_no, vr.uuid, None))
    /\ calls' = [calls EXCEPT ![s] = NoCall]
    /\ last' = [call EXCEPT !.result = "ok", !.target = vr.uuid, !.can_view = TRUE,
                            !.certs = { c.pk : c \in CertificatesFor(vr.id_no) }]

(* The owner's browser and the HR user's browser *)
OwnerSessions == {"s1"}
HrSessions == {"s2"}

(* One request; the owner confirms it from one session while HR users read *)
(* and open it from another                                                *)
NextSteps ==
    \/ Tick /\ now' <= MaxTicks * TickStep
    \/ \E c \in OwnerProfileCalls : owner_profile(c[1], c[2])
    \/ \E c \in HrVerifyCalls : hr_verify(c[1], c[2], c[3], c[4]) /\ Len(requests') <= OneRequest
    \/ \E s \in OwnerSessions, c \in ConfirmCalls : owner_confirm_otp_fetch(s, c[1], c[2], c[3])
    \/ \E s \in OwnerSessions : owner_confirm_otp_check(s)
    \/ \E s \in OwnerSessions : owner_confirm_otp_write(s)
    \/ \E s \in HrSessions, a \in Actors, u \in Uuids : hr_request_status_fetch(s, a, u)
    \/ \E s \in HrSessions : hr_request_status_save(s)
    \/ \E s \in HrSessions, a \in Actors, u \in Uuids : hr_view_request_fetch(s, a, u)
    \/ \E s \in HrSessions : hr_view_request_check(s)
    \/ \E s \in HrSessions : hr_view_request_write(s) /\ NumViews(audit') <= MaxViews

SpecSteps == Init /\ [][NextSteps]_vars

(* C22: no Confirm stores confirmed and no View stores viewed_at at a time *)
(* after the request's deadline: every non-null confirmed_at and every     *)
(* non-null viewed_at is at most otp_expires_at, also when the clock       *)
(* advances between a handler's expiry test and its write.                 *)
C22_NoWriteAfterDeadline ==
    \A i \in DOMAIN requests :
        /\ requests[i].confirmed_at # Null
             => requests[i].confirmed_at <= requests[i].otp_expires_at
        /\ requests[i].viewed_at # Null
             => requests[i].viewed_at <= requests[i].otp_expires_at

(* C23: when a Confirm overlaps a lazy-expiry read of the same request,    *)
(* reads and whole-row saves being separate steps, the stored status never *)
(* goes from confirmed to expired or from expired to confirmed, and a      *)
(* stored confirmed_at is never reset to null.                             *)
C23_TerminalUnderInterleaving ==
    [][ \A i \in DOMAIN requests :
          /\ ~(requests[i].status = "confirmed" /\ requests'[i].status = "expired")
          /\ ~(requests[i].status = "expired" /\ requests'[i].status = "confirmed")
          /\ requests[i].confirmed_at # Null => requests'[i].confirmed_at # Null ]_vars

----------------------------------------------------------------------------
(* Every handler that writes the AuditLog, in one system *)

MaxAuditLen == 3

(* One owner, one request of "hr1" for business "b1", opened by "hr1" and   *)
(* by its colleague "hr2" through either View handler; "hr2", staff of     *)
(* institution "i1" and member of the group "government", manages          *)
(* certificate 1 and makes the government calls                            *)
AuditOwnerProfileCalls == {<<"POST", <<"A">>>>}
AuditHrVerifyCalls == {<<"hr1", "POST", <<"A">>, "b1">>, <<Anonymous, "POST", <<"A">>, None>>}
AuditConfirmCalls == {<<"POST", <<"A">>, FormatInt(n)>> : n \in OtpDraws}
AuditViewers == {"hr1", "hr2"}
AuditCertCreateCalls == {<<"hr2", "i1", "POST", "i1", <<"A">>>>, <<"hr1", "i1", "POST", "i1", <<"A">>>>}
AuditCertEditCalls == {<<"hr2", "i1", 1, "POST", "i1", <<"B">>>>}
AuditCertDeleteCalls == {<<"hr2", "i1", 1, "POST">>}
AuditInstitutionCreateCalls == {<<"hr2", "POST", "c3">>, <<"hr1", "POST", "c3">>}
AuditInstitutionVerifyCalls == {<<"hr2", "i1", "POST", "verify">>}
AuditBusinessCreateCalls == {<<"hr2", "POST", "r3">>}
AuditBusinessVerifyCalls == {<<"hr2", "b1", "POST", x>> : x \in VerifyActions}

NextAudit ==
    \/ Tick /\ now' <= GovTicks * TickStep
    \/ \E c \in AuditOwnerProfileCalls : owner_profile(c[1], c[2])
    \/ \E c \in AuditConfirmCalls : owner_confirm_otp(c[1], c[2], c[3])
    \/ \E c \in AuditHrVerifyCalls :
          hr_verify(c[1], c[2], c[3], c[4]) /\ Len(requests') <= OneRequest
    \/ \E a \in AuditViewers, u \in Uuids : hr_view_request(a, u) /\ Len(audit') <= MaxAuditLen
    \/ \E a \in AuditViewers, u \in Uuids : hr_view_owner(a, u) /\ Len(audit') <= MaxAuditLen
    \/ \E c \in AuditCertCreateCalls :
          institution_cert_create(c[1], c[2], c[3], c[4], c[5]) /\ Len(audit') <= MaxAuditLen
    \/ \E c \in AuditCertEditCalls :
          institution_cert_edit(c[1], c[2], c[3], c[4], c[5], c[6]) /\ Len(audit') <= MaxAuditLen
    \/ \E c \in AuditCertDeleteCalls :
          institution_cert_delete(c[1], c[2], c[3], c[4]) /\ Len(audit') <= MaxAuditLen
    \/ \E c \in AuditInstitutionCreateCalls :
          institution_create(c[1], c[2], c[3]) /\ Len(audit') <= MaxAuditLen
    \/ \E c \in AuditInstitutionVerifyCalls :
          institution_verify(c[1], c[2], c[3], c[4]) /\ Len(audit') <= MaxAuditLen
    \/ \E c \in AuditBusinessCreateCalls :
          business_create(c[1], c[2], c[3]) /\ Len(audit') <= MaxAuditLen
    \/ \E c \in AuditBusinessVerifyCalls :
          business_verify(c[1], c[2], c[3], c[4]) /\ Len(audit') <= MaxAuditLen

SpecAudit == InitGov /\ [][NextAudit]_vars

(* C21: over every sequence of calls of the core, institution and          *)
(* government handlers the audit log only grows: every step keeps the      *)
(* entries already written, in their order and with their user, action,    *)
(* details and created_at, and at most appends to them.                    *)
C21_AuditAppendOnly ==
    [][ /\ Len(audit') >= Len(audit)
        /\ SubSeq(audit', 1, Len(audit)) = audit ]_vars

(* The log holds an entry of a request handler, one of a certificate       *)
(* handler and one of a government handler, in the order they were written *)
C21_Witness ==
    /\ Len(audit) = 3
    /\ audit[1].action = "requested_verification"
    /\ audit[2].action \in {"certificate_added", "certificate_edited", "certificate_deleted"}
    /\ audit[3].action \in {"institution_added", "institution_verified", "business_registered",
                            "business_verified"}

----------------------------------------------------------------------------
(* Requests that are created early enough for the clock to pass their      *)
(* deadline, with a clock that keeps advancing and HR users who keep       *)
(* opening the status page of each request                                 *)

LiveHrVerifyCalls == {<<"hr1", "POST", <<"A">>, None>>}
LiveConfirmCalls == {<<"POST", <<"A">>, o>> : o \in {FormatInt(OTP_LOW), <<>>}}
LiveReaders == {"hr1", Anonymous}

ClockAdvance == Tick /\ now' <= MaxTicks * TickStep

(* A status page read by a logged-in user; an anonymous client is sent to  *)
(* the login page before any row is read                                   *)
DetailRead(u) == \E a \in LiveReaders \ {Anonymous} : hr_request_status(a, u)

NextLive ==
    \/ ClockAdvance
    \/ \E c \in AuditOwnerProfileCalls : owner_profile(c[1], c[2])
    \/ \E c \in LiveHrVerifyCalls :
          /\ hr_verify(c[1], c[2], c[3], c[4])
          /\ Len(requests') <= MaxReq
          /\ now + OTP_MINUTES < MaxTicks * TickStep
    \/ \E c \in LiveConfirmCalls : owner_confirm_otp(c[1], c[2], c[3])
    \/ \E u \in Uuids : DetailRead(u)
    \/ \E u \in Uuids : hr_request_status(Anonymous, u)
    \/ \E a \in LiveReaders : home(a)

SpecLive ==
    /\ Init
    /\ [][NextLive]_vars
    /\ WF_vars(ClockAdvance)
    /\ \A u \in Uuids : WF_vars(DetailRead(u))

(* C24: with a clock that keeps advancing and status pages that keep being *)
(* read, every request eventually has a terminal status, confirmed or      *)
(* expired; and no step other than a Confirm or a status read changes a    *)
(* stored request, so a request nobody reads after its deadline stays      *)
(* pending.                                                                *)
C24_ExpiryOnDemand ==
    /\ \A u \in Uuids :
          [](u \in DOMAIN requests
               => <>(/\ u \in DOMAIN requests
                     /\ requests[u].status \in {"confirmed", "expired"}))
    /\ [][ last'.op \notin {"owner_confirm_otp", "hr_request_status"}
             => \A i \in DOMAIN requests : requests'[i] = requests[i] ]_vars

(* After the deadline of both requests a status read has expired one,      *)
(* while the other, not read yet, is still stored as pending               *)
C24_Witness ==
    /\ last.op = "hr_request_status"
    /\ requests[last.target].status = "expired"
    /\ \E j \in DOMAIN requests :
          /\ requests[j].status = "pending"
          /\ now > requests[j].otp_expires_at

=============================================================================
